---- MODULE Spec2Model ----
(***************************************************************************)
(* Product / supplier catalog service (FastAPI + SQLAlchemy).              *)
(*                                                                         *)
(* The persistent store is the state; one action per request handler.     *)
(* Every repository call that writes ends with its own commit, so the     *)
(* effect of a handler that raises half way is the effect of the calls    *)
(* that had returned before the exception.                                *)
(*                                                                         *)
(* Prices are counted in cents, so every modelled price has at most two   *)
(* decimal places.  created_at / updated_at and explicit JSON nulls are   *)
(* not among the modelled inputs.                                          *)
(***************************************************************************)
EXTENDS Integers, Sequences, FiniteSets, TLC

VARIABLES
    products,            \* table products: id -> row
    product_seq,         \* next value of the products.id serial
    product_suppliers,   \* table product_suppliers: <<product_id, supplier_id>>
    price_history,       \* table price_history, in insertion order
    price_history_seq,   \* next value of the price_history.id serial
    stock_history,       \* table stock_history, in insertion order
    stock_history_seq,   \* next value of the stock_history.id serial
    suppliers,           \* table suppliers: id -> row
    supplier_seq,        \* next value of the suppliers.id serial
    last,                \* the last request handled and its response
    requests,            \* the requests in progress, each at an await point
    sessions,            \* the calls of get_db: number -> position, request
    responses            \* the statuses the clients of a scenario received

product_vars == <<products, product_seq, product_suppliers,
                  price_history, price_history_seq,
                  stock_history, stock_history_seq>>
supplier_vars == <<suppliers, supplier_seq>>
vars == <<products, product_seq, product_suppliers,
          price_history, price_history_seq,
          stock_history, stock_history_seq, suppliers, supplier_seq, last,
          requests, sessions, responses>>
exchange_vars == <<sessions, responses>>

----------------------------------------------------------------------------
(* Bounds *)

MaxProducts == 2
MaxHistory == 2
MaxBatch == 2
MaxSuppliers == 2
MaxStored == 3
MaxRequests == 2
MaxSessions == 2

----------------------------------------------------------------------------
(* Generic helpers *)

Empty == [x \in {} |-> 0]

Opt(f, S) == {Empty} \cup {f :> v : v \in S}

SeqsUpTo(S, n) == UNION {[1..k -> S] : k \in 0..n}

NonEmptySeqsUpTo(S, n) == UNION {[1..k -> S] : k \in 1..n}

Range(s) == {s[i] : i \in DOMAIN s}

None == "None"

Min(a, b) == IF a <= b THEN a ELSE b

Max(a, b) == IF a >= b THEN a ELSE b

\* query.offset(skip).limit(limit)
offset_limit(o, skip, limit) == SubSeq(o, skip + 1, Min(Len(o), skip + limit))

\* Text columns are sequences of characters, so that LIKE can be computed.
Cap == <<"C", "a", "p">>

cup == <<"c", "u", "p">>

Acme == <<"A", "c", "m", "e">>

Bolt == <<"B", "o", "l", "t">>

mail == <<"m", "a", "i", "l">>

phone == <<"p", "h", "o", "n", "e">>

----------------------------------------------------------------------------
(* The store as one value, so that service methods are functions of it *)

DB ==
    [products |-> products, product_seq |-> product_seq,
     product_suppliers |-> product_suppliers,
     price_history |-> price_history, price_history_seq |-> price_history_seq,
     stock_history |-> stock_history, stock_history_seq |-> stock_history_seq]

Commit(db) ==
    /\ products' = db.products
    /\ product_seq' = db.product_seq
    /\ product_suppliers' = db.product_suppliers
    /\ price_history' = db.price_history
    /\ price_history_seq' = db.price_history_seq
    /\ stock_history' = db.stock_history
    /\ stock_history_seq' = db.stock_history_seq

----------------------------------------------------------------------------
(* Schemas (pydantic validation at the request boundary) *)

ProductBase(p) ==
    /\ p.price > 0
    /\ p.stock_quantity >= 0
    /\ p.discount >= 0 /\ p.discount <= 100

ProductUpdate(p) ==
    /\ "price" \in DOMAIN p => p.price > 0
    /\ "stock_quantity" \in DOMAIN p => p.stock_quantity >= 0
    /\ "discount" \in DOMAIN p => (p.discount >= 0 /\ p.discount <= 100)

----------------------------------------------------------------------------
(* Repositories *)

get(db, id) ==
    IF id \in DOMAIN db.products
    THEN [exc |-> "none", obj |-> db.products[id]]
    ELSE [exc |-> "NotFoundException", named |-> <<id>>]

create(db, obj_in) ==
    [db EXCEPT !.products = (db.product_seq :> obj_in) @@ @,
               !.product_seq = @ + 1]

\* name and price are nullable=False columns without a default: the store
\* rejects a row that has no value for one of them.
not_null(obj) == {"name", "price"} \subseteq DOMAIN obj

\* db.add for each object of the list
RECURSIVE add_all(_, _)
add_all(db, objs_in) ==
    IF objs_in = <<>> THEN db
    ELSE add_all(create(db, Head(objs_in)), Tail(objs_in))

\* The rows the INSERTs of the flush reach: all of them, or the rows up to
\* and including the first the store rejects.
RECURSIVE flushed(_)
flushed(objs_in) ==
    IF objs_in = <<>> THEN 0
    ELSE IF ~not_null(Head(objs_in)) THEN 1
    ELSE 1 + flushed(Tail(objs_in))

\* A commit after each add: the rows before the rejected one stay.
batch_create_row_by_row(db, objs_in) ==
    IF \A i \in DOMAIN objs_in : not_null(objs_in[i])
    THEN add_all(db, objs_in)
    ELSE [add_all(db, SubSeq(objs_in, 1, flushed(objs_in) - 1))
             EXCEPT !.product_seq = @ + 1]

\* The adds and one commit.  The commit flushes every INSERT in one
\* transaction; a rejected row fails the commit and the transaction is
\* rolled back, which does not give back the ids the sequence handed out.
batch_create(db, objs_in) ==
    IF \A i \in DOMAIN objs_in : not_null(objs_in[i])
    THEN add_all(db, objs_in)
    ELSE [db EXCEPT !.product_seq = @ + flushed(objs_in)]

update(db, id, update_data) ==
    [db EXCEPT !.products[id] =
        [field \in DOMAIN @ |->
            IF field \in DOMAIN update_data THEN update_data[field] ELSE @[field]]]

delete_keeping_row(db, id) ==
    [db EXCEPT
        !.product_suppliers = {a \in @ : a[1] # id},
        !.price_history = SelectSeq(@, LAMBDA r : r.product_id # id),
        !.stock_history = SelectSeq(@, LAMBDA r : r.product_id # id)]

\* db.delete(obj) and commit: the ORM deletes the rows of the many-to-many
\* table and, by cascade, the history rows of the product with it.
delete(db, id) ==
    [db EXCEPT
        !.products = [i \in DOMAIN @ \ {id} |-> @[i]],
        !.product_suppliers = {a \in @ : a[1] # id},
        !.price_history = SelectSeq(@, LAMBDA r : r.product_id # id),
        !.stock_history = SelectSeq(@, LAMBDA r : r.product_id # id)]

add_price_change_swapped(db, product_id, old_price, new_price) ==
    [db EXCEPT
        !.price_history = Append(@, [id |-> db.price_history_seq,
                                     product_id |-> product_id,
                                     old_price |-> new_price,
                                     new_price |-> old_price]),
        !.price_history_seq = @ + 1]

add_price_change_replacing(db, product_id, old_price, new_price) ==
    [db EXCEPT
        !.price_history =
            Append(SelectSeq(@, LAMBDA r : r.product_id # product_id),
                   [id |-> db.price_history_seq,
                    product_id |-> product_id,
                    old_price |-> old_price,
                    new_price |-> new_price]),
        !.price_history_seq = @ + 1]

add_price_change(db, product_id, old_price, new_price) ==
    [db EXCEPT
        !.price_history = Append(@, [id |-> db.price_history_seq,
                                     product_id |-> product_id,
                                     old_price |-> old_price,
                                     new_price |-> new_price]),
        !.price_history_seq = @ + 1]

add_stock_change_replacing(db, product_id, old_quantity, new_quantity, change_reason) ==
    [db EXCEPT
        !.stock_history =
            Append(SelectSeq(@, LAMBDA r : r.product_id # product_id),
                   [id |-> db.stock_history_seq,
                    product_id |-> product_id,
                    old_quantity |-> old_quantity,
                    new_quantity |-> new_quantity,
                    change_reason |-> change_reason]),
        !.stock_history_seq = @ + 1]

add_stock_change(db, product_id, old_quantity, new_quantity, change_reason) ==
    [db EXCEPT
        !.stock_history = Append(@, [id |-> db.stock_history_seq,
                                     product_id |-> product_id,
                                     old_quantity |-> old_quantity,
                                     new_quantity |-> new_quantity,
                                     change_reason |-> change_reason]),
        !.stock_history_seq = @ + 1]

\* select ... where id = :id, with the suppliers of the product; None when
\* there is no such row.
get_with_suppliers(db, id) ==
    [found |-> id \in DOMAIN db.products,
     suppliers |-> {a[2] : a \in {b \in db.product_suppliers : b[1] = id}}]

\* product_suppliers is a Table, not a mapped class.  When the association
\* is not there yet the method calls ProductSupplier(product_id = ...,
\* supplier_id = ...), and a Table object is not callable: TypeError, before
\* anything is added to the session.
add_supplier(db, product_id, supplier_id) ==
    IF <<product_id, supplier_id>> \in db.product_suppliers
    THEN [db |-> db, exc |-> "none"]
    ELSE [db |-> db, exc |-> "TypeError"]

\* scalar_one_or_none() of a select on the Table gives the first column of
\* the row, an integer; db.delete of an integer is refused.
remove_supplier(db, product_id, supplier_id) ==
    IF <<product_id, supplier_id>> \in db.product_suppliers
    THEN [db |-> db, exc |-> "UnmappedInstanceError"]
    ELSE [db |-> db, exc |-> "none"]

Reverse(seq) == [i \in DOMAIN seq |-> seq[Len(seq) + 1 - i]]

\* PriceHistoryRepository.get_by_product_id: the rows of the product, the
\* newest (largest timestamp) first.  Rows are stamped with the clock when
\* they are inserted, so the newest is the last inserted.
price_get_by_product_id(db, product_id, skip, limit) ==
    offset_limit(Reverse(SelectSeq(db.price_history,
                                   LAMBDA r : r.product_id = product_id)),
                 skip, limit)

\* StockHistoryRepository.get_by_product_id
stock_get_by_product_id(db, product_id, skip, limit) ==
    offset_limit(Reverse(SelectSeq(db.stock_history,
                                   LAMBDA r : r.product_id = product_id)),
                 skip, limit)

\* A date of a request is "past", a date before every stored row was
\* stamped, or "future", a date after.  The conditions of get_by_date_range
\* on the timestamp of a stored row: timestamp >= start_date when there is a
\* start_date, timestamp <= end_date when there is an end_date.
in_date_range(dates) ==
    /\ "start_date" \in DOMAIN dates => dates.start_date = "past"
    /\ "end_date" \in DOMAIN dates => dates.end_date = "future"

price_get_by_date_range(db, product_id, dates, skip, limit) ==
    offset_limit(Reverse(SelectSeq(db.price_history,
                    LAMBDA r : r.product_id = product_id /\ in_date_range(dates))),
                 skip, limit)

stock_get_by_date_range(db, product_id, dates, skip, limit) ==
    offset_limit(Reverse(SelectSeq(db.stock_history,
                    LAMBDA r : r.product_id = product_id /\ in_date_range(dates))),
                 skip, limit)

----------------------------------------------------------------------------
(* HistoryService: the reads.  Each asks product_repository.get for the     *)
(* product first; ret holds the ids of the rows returned, for the combined  *)
(* history those of the price rows and then those of the stock rows.        *)

Ids(rows) == [i \in DOMAIN rows |-> rows[i].id]

history_read(db, product_id, rows) ==
    LET g == get(db, product_id) IN
    IF g.exc # "none"
    THEN [db |-> db, exc |-> g.exc, named |-> g.named, ret |-> <<>>]
    ELSE [db |-> db, exc |-> "none", named |-> <<>>, ret |-> Ids(rows)]

get_price_history(db, product_id, skip, limit) ==
    history_read(db, product_id,
                 price_get_by_product_id(db, product_id, skip, limit))

get_price_history_by_date_range(db, product_id, dates, skip, limit) ==
    history_read(db, product_id,
                 price_get_by_date_range(db, product_id, dates, skip, limit))

get_stock_history(db, product_id, skip, limit) ==
    history_read(db, product_id,
                 stock_get_by_product_id(db, product_id, skip, limit))

get_stock_history_by_date_range(db, product_id, dates, skip, limit) ==
    history_read(db, product_id,
                 stock_get_by_date_range(db, product_id, dates, skip, limit))

get_combined_history_unchecked(db, product_id, dates, skip, limit) ==
    [db |-> db, exc |-> "none", named |-> <<>>,
     ret |-> Ids(price_get_by_date_range(db, product_id, dates, skip, limit))
             \o Ids(stock_get_by_date_range(db, product_id, dates, skip, limit))]

get_combined_history(db, product_id, dates, skip, limit) ==
    history_read(db, product_id,
                 price_get_by_date_range(db, product_id, dates, skip, limit)
                 \o stock_get_by_date_range(db, product_id, dates, skip, limit))

----------------------------------------------------------------------------
(* ProductService *)

get_product(db, id) ==
    IF get_with_suppliers(db, id).found
    THEN [db |-> db, exc |-> "none", named |-> <<>>, ret |-> <<id>>]
    ELSE [db |-> db, exc |-> "HTTPException404", named |-> <<id>>, ret |-> <<>>]

\* The tracked pipeline shared by update_product and batch_update_products:
\* history rows first, each committed, then the product row.
tracked_update_by_presence(db, id, product, update_data, change_reason) ==
    LET db1 == IF "price" \in DOMAIN update_data
               THEN add_price_change(db, id, product.price, update_data.price)
               ELSE db
        db2 == IF "stock_quantity" \in DOMAIN update_data
               THEN add_stock_change(db1, id, product.stock_quantity,
                                     update_data.stock_quantity, change_reason)
               ELSE db1
    IN update(db2, id, update_data)

\* The stock row written without the reason of the request.
tracked_update_without_reason(db, id, product, update_data, change_reason) ==
    LET db1 == IF "price" \in DOMAIN update_data
                  /\ update_data.price # product.price
               THEN add_price_change(db, id, product.price, update_data.price)
               ELSE db
        db2 == IF "stock_quantity" \in DOMAIN update_data
                  /\ update_data.stock_quantity # product.stock_quantity
               THEN add_stock_change(db1, id, product.stock_quantity,
                                     update_data.stock_quantity, None)
               ELSE db1
    IN update(db2, id, update_data)

tracked_update(db, id, product, update_data, change_reason) ==
    LET db1 == IF "price" \in DOMAIN update_data
                  /\ update_data.price # product.price
               THEN add_price_change(db, id, product.price, update_data.price)
               ELSE db
        db2 == IF "stock_quantity" \in DOMAIN update_data
                  /\ update_data.stock_quantity # product.stock_quantity
               THEN add_stock_change(db1, id, product.stock_quantity,
                                     update_data.stock_quantity, change_reason)
               ELSE db1
    IN update(db2, id, update_data)

update_product(db, id, update_data, change_reason) ==
    LET g == get(db, id) IN
    IF g.exc # "none"
    THEN [db |-> db, exc |-> g.exc, named |-> g.named, ret |-> <<>>]
    ELSE [db |-> tracked_update(db, id, g.obj, update_data, change_reason),
          exc |-> "none", named |-> <<>>, ret |-> <<id>>]

delete_product(db, id) ==
    LET g == get(db, id) IN
    IF g.exc # "none"
    THEN [db |-> db, exc |-> g.exc, named |-> g.named, ret |-> <<>>]
    ELSE [db |-> delete(db, id), exc |-> "none", named |-> <<>>, ret |-> <<id>>]

\* The loop of create_product over supplier_ids: an exception of
\* add_supplier is printed and the loop goes on.
RECURSIVE add_suppliers(_, _, _)
add_suppliers(db, product_id, supplier_ids) ==
    IF supplier_ids = <<>> THEN db
    ELSE add_suppliers(add_supplier(db, product_id, Head(supplier_ids)).db,
                       product_id, Tail(supplier_ids))

\* supplier_ids is read under hasattr(product_in, "supplier_ids"); the
\* product row is product_in without it.
create_product(db, product_in) ==
    LET supplier_ids == IF "supplier_ids" \in DOMAIN product_in
                        THEN product_in.supplier_ids ELSE <<>>
        product_data == [k \in DOMAIN product_in \ {"supplier_ids"}
                            |-> product_in[k]]
    IN [db |-> add_suppliers(create(db, product_data), db.product_seq,
                             supplier_ids),
        exc |-> "none", named |-> <<>>, ret |-> <<db.product_seq>>]

add_supplier_to_product(db, product_id, supplier_id) ==
    LET g == get(db, product_id) IN
    IF g.exc # "none"
    THEN [db |-> db, exc |-> g.exc, named |-> g.named, ret |-> <<>>]
    ELSE LET r == add_supplier(db, product_id, supplier_id)
         IN [db |-> r.db, exc |-> r.exc, named |-> <<>>,
             ret |-> IF r.exc = "none" THEN <<product_id>> ELSE <<>>]

remove_supplier_from_product(db, product_id, supplier_id) ==
    LET g == get(db, product_id) IN
    IF g.exc # "none"
    THEN [db |-> db, exc |-> g.exc, named |-> g.named, ret |-> <<>>]
    ELSE LET r == remove_supplier(db, product_id, supplier_id)
         IN [db |-> r.db, exc |-> r.exc, named |-> <<>>,
             ret |-> IF r.exc = "none" THEN <<product_id>> ELSE <<>>]

\* The suppliers a read of the product's suppliers returns
get_product_suppliers(db, product_id) ==
    get_with_suppliers(db, product_id).suppliers

batch_create_products(db, products_in) ==
    IF \A i \in DOMAIN products_in : not_null(products_in[i])
    THEN [db |-> batch_create(db, products_in), exc |-> "none", named |-> <<>>,
          ret |-> [i \in DOMAIN products_in |-> db.product_seq + i - 1]]
    ELSE [db |-> batch_create(db, products_in), exc |-> "IntegrityError",
          named |-> <<>>, ret |-> <<>>]

\* The loop without its two history branches.
RECURSIVE batch_update_loop_untracked(_, _, _)
batch_update_loop_untracked(db, updates, updated_products) ==
    IF updates = <<>>
    THEN [db |-> db, exc |-> "none", named |-> <<>>, ret |-> updated_products]
    ELSE LET update_item == Head(updates)
             g == get(db, update_item.id)
         IN IF g.exc # "none"
            THEN [db |-> db, exc |-> g.exc, named |-> g.named, ret |-> <<>>]
            ELSE batch_update_loop_untracked(
                     update(db, update_item.id,
                            [k \in DOMAIN update_item \ {"id", "change_reason"}
                                |-> update_item[k]]),
                     Tail(updates), Append(updated_products, update_item.id))

\* get raises for a missing id, so the loop never reaches its own
\* missing_products bookkeeping: it stops at the first missing id, after the
\* items before it were written and committed.
RECURSIVE batch_update_loop(_, _, _)
batch_update_loop(db, updates, updated_products) ==
    IF updates = <<>>
    THEN [db |-> db, exc |-> "none", named |-> <<>>, ret |-> updated_products]
    ELSE LET update_item == Head(updates)
             product_id == update_item.id
             g == get(db, product_id)
         IN IF g.exc # "none"
            THEN [db |-> db, exc |-> g.exc, named |-> g.named, ret |-> <<>>]
            ELSE LET update_data ==
                         [k \in DOMAIN update_item \ {"id", "change_reason"}
                             |-> update_item[k]]
                     change_reason ==
                         IF "change_reason" \in DOMAIN update_item
                         THEN update_item.change_reason ELSE None
                 IN batch_update_loop(
                        tracked_update(db, product_id, g.obj, update_data,
                                       change_reason),
                        Tail(updates), Append(updated_products, product_id))

batch_update_products(db, updates) == batch_update_loop(db, updates, <<>>)

RECURSIVE batch_delete_loop(_, _, _)
batch_delete_loop(db, ids, deleted_products) ==
    IF ids = <<>>
    THEN [db |-> db, exc |-> "none", named |-> <<>>, ret |-> deleted_products]
    ELSE LET product_id == Head(ids)
             g == get(db, product_id)
         IN IF g.exc # "none"
            THEN [db |-> db, exc |-> g.exc, named |-> g.named, ret |-> <<>>]
            ELSE batch_delete_loop(delete(db, product_id), Tail(ids),
                                   Append(deleted_products, product_id))

batch_delete_products(db, ids) == batch_delete_loop(db, ids, <<>>)

----------------------------------------------------------------------------
(* Endpoints of /products, each as the framework calls its handler; which *)
(* handler a path reaches is the router's matter.  An exception that no    *)
(* handler catches leaves the request with status 500; what was committed  *)
(* stays committed.  last records the endpoint, the status, the ids named  *)
(* in the error detail, the ids of the products returned, the number of    *)
(* price_history / stock_history rows the request inserted and the names   *)
(* of the fields a PUT /products/{id} body carried.                         *)

Status(exc, ok) ==
    CASE exc = "none" -> ok
      [] exc = "HTTPException404" -> "404"
      [] exc = "HTTPException400" -> "400"
      [] OTHER -> "500"

Bounded(db) ==
    /\ db.product_seq <= MaxProducts + 1
    /\ db.price_history_seq + db.stock_history_seq <= MaxHistory + 2

Rejected(op, status, fields) ==
    /\ UNCHANGED product_vars
    /\ last' = [op |-> op, status |-> status, named |-> <<>>, ret |-> <<>>,
                rows |-> <<0, 0>>, fields |-> fields]

Respond(op, r, exc, ok, fields) ==
    /\ Bounded(r.db)
    /\ Commit(r.db)
    /\ last' = [op |-> op, status |-> Status(exc, ok), named |-> r.named,
                ret |-> r.ret,
                rows |-> <<r.db.price_history_seq - price_history_seq,
                           r.db.stock_history_seq - stock_history_seq>>,
                fields |-> fields]

\* The body is parsed into a ProductCreate, which has no field supplier_ids
\* (nor supplier_id): a key of the body that is no field of the schema is
\* dropped.
ProductCreate(body) ==
    [k \in DOMAIN body \cap {"name", "price", "description", "stock_quantity",
                             "category", "discount"} |-> body[k]]

api_create_product(body) ==
    /\ IF ~ProductBase(body)
       THEN Rejected("create_product", "422", {})
       ELSE LET r == create_product(DB, ProductCreate(body))
            IN Respond("create_product", r, r.exc, "201", {})
    /\ UNCHANGED <<supplier_vars, requests, exchange_vars>>

\* ProductService.create_product called with an object that does have the
\* attribute supplier_ids.
service_create_product(product_in) ==
    /\ LET r == create_product(DB, product_in)
       IN Respond("service_create_product", r, r.exc, "201", {})
    /\ UNCHANGED <<supplier_vars, requests, exchange_vars>>

api_get_product(product_id) ==
    /\ LET r == get_product(DB, product_id)
       IN Respond("get_product", r, r.exc, "200", {})
    /\ UNCHANGED <<supplier_vars, requests, exchange_vars>>

api_add_supplier_to_product(product_id, supplier_id) ==
    /\ LET r == add_supplier_to_product(DB, product_id, supplier_id)
       IN Respond("add_supplier_to_product", r, r.exc, "200", {})
    /\ UNCHANGED <<supplier_vars, requests, exchange_vars>>

api_remove_supplier_from_product(product_id, supplier_id) ==
    /\ LET r == remove_supplier_from_product(DB, product_id, supplier_id)
       IN Respond("remove_supplier_from_product", r, r.exc, "200", {})
    /\ UNCHANGED <<supplier_vars, requests, exchange_vars>>

\* GET /history/price/{product_id} without dates: ret holds the ids of the
\* rows returned, newest first.
api_get_price_history(product_id) ==
    /\ LET g == get_product(DB, product_id)
           r == IF g.exc # "none" THEN g
                ELSE [g EXCEPT !.ret = [i \in DOMAIN
                          price_get_by_product_id(DB, product_id, 0, 100) |->
                          price_get_by_product_id(DB, product_id, 0, 100)[i].id]]
       IN Respond("get_price_history", r, r.exc, "200", {})
    /\ UNCHANGED <<supplier_vars, requests, exchange_vars>>

\* A read of HistoryService, called with the default skip and limit: last
\* records the method, the exception it raised ("returned" when it raised
\* none), the id named in the error and the ids of the rows returned.
HistoryReads ==
    {"get_price_history", "get_price_history_by_date_range",
     "get_stock_history", "get_stock_history_by_date_range",
     "get_combined_history"}

history_service_read(method, product_id, dates) ==
    /\ LET r == CASE method = "get_price_history" ->
                       get_price_history(DB, product_id, 0, 100)
                  [] method = "get_price_history_by_date_range" ->
                       get_price_history_by_date_range(DB, product_id, dates,
                                                       0, 100)
                  [] method = "get_stock_history" ->
                       get_stock_history(DB, product_id, 0, 100)
                  [] method = "get_stock_history_by_date_range" ->
                       get_stock_history_by_date_range(DB, product_id, dates,
                                                       0, 100)
                  [] OTHER ->
                       get_combined_history(DB, product_id, dates, 0, 100)
       IN /\ Commit(r.db)
          /\ last' = [op |-> method,
                      status |-> IF r.exc = "none" THEN "returned" ELSE r.exc,
                      named |-> r.named, ret |-> r.ret,
                      rows |-> <<0, 0>>, fields |-> {}]
    /\ UNCHANGED <<supplier_vars, requests, exchange_vars>>

api_update_product(product_id, product_in) ==
    /\ IF ~ProductUpdate(product_in)
       THEN Rejected("update_product", "422", DOMAIN product_in)
       ELSE LET update_data ==
                    [k \in DOMAIN product_in \ {"change_reason"} |-> product_in[k]]
                change_reason ==
                    IF "change_reason" \in DOMAIN product_in
                    THEN product_in.change_reason ELSE None
                r == update_product(DB, product_id, update_data, change_reason)
            IN Respond("update_product", r, r.exc, "200", DOMAIN product_in)
    /\ UNCHANGED <<supplier_vars, requests, exchange_vars>>

api_delete_product(product_id) ==
    /\ LET r == delete_product(DB, product_id)
       IN Respond("delete_product", r, r.exc, "200", {})
    /\ UNCHANGED <<supplier_vars, requests, exchange_vars>>

api_batch_create_products(products_in) ==
    /\ IF \E i \in DOMAIN products_in : ~ProductBase(products_in[i])
       THEN Rejected("batch_create_products", "422", {})
       ELSE LET r == batch_create_products(DB, products_in)
            IN Respond("batch_create_products", r, r.exc, "201", {})
    /\ UNCHANGED <<supplier_vars, requests, exchange_vars>>

\* ProductService.batch_create_products called with objects that did not
\* pass through the schema.
service_batch_create_products(products_in) ==
    /\ LET r == batch_create_products(DB, products_in)
       IN Respond("service_batch_create_products", r, r.exc, "201", {})
    /\ UNCHANGED <<supplier_vars, requests, exchange_vars>>

\* The except branch asks the service for batch_update_products_silently,
\* which ProductService does not define: AttributeError.
api_batch_update_products(updates) ==
    /\ LET r == batch_update_products(DB, updates)
           exc == IF r.exc = "HTTPException404" THEN "AttributeError" ELSE r.exc
       IN Respond("batch_update_products", r, exc, "200", {})
    /\ UNCHANGED <<supplier_vars, requests, exchange_vars>>

\* batch_delete_products_silently is a module-level function of the endpoint
\* file, not a method of ProductService: the except branch that asks the
\* service for it ends in AttributeError.
api_batch_delete_products(ids) ==
    /\ IF ids = <<>>
       THEN Rejected("batch_delete_products", "400", {})
       ELSE LET r == batch_delete_products(DB, ids)
                exc == IF r.exc = "HTTPException404" THEN "AttributeError"
                       ELSE r.exc
            IN Respond("batch_delete_products", r, exc, "200", {})
    /\ UNCHANGED <<supplier_vars, requests, exchange_vars>>

----------------------------------------------------------------------------
(* Requests in progress.  A handler gives way to other requests only where  *)
(* it awaits the database, so a request advances by one database            *)
(* transaction per step.  Each request has a session of its own; sessions   *)
(* keep what they loaded (expire_on_commit = False).  The store is          *)
(* PostgreSQL at READ COMMITTED: a statement sees what was committed before *)
(* it, and an INSERT of a history row and a DELETE of its product that      *)
(* overlap wait for one another on the row lock of the product, so that     *)
(* each transaction is one step.                                             *)
(*                                                                           *)
(* requests[r] holds the operation, the product row the session loaded      *)
(* (product), the update dict, the database operations still to run (todo), *)
(* and for a deletion the ids still to delete, the ids deleted and the ids  *)
(* of the history rows the cascade loaded.  When a request ends, last       *)
(* records its operation, its status, the product id and, for an update     *)
(* that succeeded, the row its session had loaded and its update dict.      *)

RequestIds == 1..MaxRequests

\* A new request takes the first free place.
Free(r) == r \notin DOMAIN requests /\ \A q \in 1..(r - 1) : q \in DOMAIN requests

\* ForeignKey("products.id") of price_history.product_id and
\* stock_history.product_id
foreign_key_not_enforced(db, product_id) == TRUE

foreign_key(db, product_id) == product_id \in DOMAIN db.products

\* The database operations of update_product after the product was loaded
pipeline_update_first(product, update_data) ==
    <<"update">>
    \o (IF "price" \in DOMAIN update_data /\ update_data.price # product.price
        THEN <<"add_price_change">> ELSE <<>>)
    \o (IF "stock_quantity" \in DOMAIN update_data
           /\ update_data.stock_quantity # product.stock_quantity
        THEN <<"add_stock_change">> ELSE <<>>)

pipeline(product, update_data) ==
    (IF "price" \in DOMAIN update_data /\ update_data.price # product.price
     THEN <<"add_price_change">> ELSE <<>>)
    \o (IF "stock_quantity" \in DOMAIN update_data
           /\ update_data.stock_quantity # product.stock_quantity
        THEN <<"add_stock_change">> ELSE <<>>)
    \o <<"update">>

\* The columns the flush of BaseRepository.update writes: the attributes
\* whose new value differs from the value the session had loaded.
net_changes(product, update_data) ==
    [k \in {f \in DOMAIN update_data \cap DOMAIN product :
                update_data[f] # product[f]} |-> update_data[k]]

Ends(r, op, status, product_id, product, update_data) ==
    /\ requests' = [q \in DOMAIN requests \ {r} |-> requests[q]]
    /\ last' = [op |-> op, status |-> status, product_id |-> product_id,
                product |-> product, update_data |-> update_data]

\* PUT /products/{product_id} up to the return of product_repository.get
begin_update_product(r, product_id, product_in) ==
    /\ Free(r)
    /\ LET update_data ==
               [k \in DOMAIN product_in \ {"change_reason"} |-> product_in[k]]
           change_reason ==
               IF "change_reason" \in DOMAIN product_in
               THEN product_in.change_reason ELSE None
           g == get(DB, product_id)
       IN IF ~ProductUpdate(product_in)
          THEN Ends(r, "update_product", "422", product_id, Empty, Empty)
          ELSE IF g.exc # "none"
          THEN Ends(r, "update_product", "500", product_id, Empty, Empty)
          ELSE /\ requests' = requests @@
                    (r :> [op |-> "update_product", product_id |-> product_id,
                           product |-> g.obj, update_data |-> update_data,
                           change_reason |-> change_reason,
                           todo |-> pipeline(g.obj, update_data),
                           ids |-> <<>>, deleted |-> <<>>,
                           price_rows |-> {}, stock_rows |-> {}])
               /\ UNCHANGED last
    /\ UNCHANGED <<product_vars, supplier_vars>>

\* The next database operation of an update in progress: a history insert
\* (INSERT and COMMIT; refused when the product row is gone) or the write of
\* the product (UPDATE ... WHERE id, which finds no row when the product was
\* deleted: StaleDataError, or the refresh after it finds none).  The
\* request returns after its last operation.
step_update_product(r) ==
    /\ r \in DOMAIN requests
    /\ requests[r].op = "update_product"
    /\ LET q == requests[r]
           step == Head(q.todo)
           db == CASE step = "add_price_change" ->
                        add_price_change(DB, q.product_id, q.product.price,
                                         q.update_data.price)
                   [] step = "add_stock_change" ->
                        add_stock_change(DB, q.product_id,
                                         q.product.stock_quantity,
                                         q.update_data.stock_quantity,
                                         q.change_reason)
                   [] OTHER ->
                        update(DB, q.product_id,
                               net_changes(q.product, q.update_data))
           refused == IF step = "update"
                      THEN q.product_id \notin DOMAIN products
                      ELSE ~foreign_key(DB, q.product_id)
       IN IF refused
          THEN /\ Ends(r, "update_product", "500", q.product_id, Empty, Empty)
               /\ UNCHANGED product_vars
          ELSE /\ Bounded(db)
               /\ Commit(db)
               /\ IF Tail(q.todo) = <<>>
                  THEN Ends(r, "update_product", "200", q.product_id,
                            q.product, q.update_data)
                  ELSE /\ requests' = [requests EXCEPT ![r].todo = Tail(@)]
                       /\ UNCHANGED last
    /\ UNCHANGED supplier_vars

\* DELETE /products/{product_id} (op = "delete_product", one id) and
\* ProductService.batch_delete_products (op = "batch_delete_products"), up
\* to the first product_repository.get.
begin_delete_products(r, op, ids) ==
    /\ Free(r)
    /\ requests' = requests @@
            (r :> [op |-> op, product_id |-> Head(ids), product |-> Empty,
                   update_data |-> Empty, change_reason |-> None,
                   todo |-> <<"get">>, ids |-> ids, deleted |-> <<>>,
                   price_rows |-> {}, stock_rows |-> {}])
    /\ UNCHANGED <<product_vars, supplier_vars, last>>

\* The next database operation of a deletion in progress:
\*   get      the product row is selected; NotFoundException when it is gone
\*   cascade  db.delete(obj) selects the history rows of the product, for
\*            the cascade (two selects; a row committed between them is
\*            either loaded or not, as one committed before or after)
\*   flush    commit: DELETE of the association rows, of the history rows
\*            that were loaded and of the product.  A history row that was
\*            not loaded still references the product: the DELETE is refused
\*            (IntegrityError) and the transaction rolled back.  A product
\*            another request deleted meanwhile matches no row, which the
\*            ORM only warns about.
step_delete_products(r) ==
    /\ r \in DOMAIN requests
    /\ requests[r].op \in {"delete_product", "batch_delete_products"}
    /\ LET q == requests[r]
           step == Head(q.todo)
           id == Head(q.ids)
           mine(history) == {history[i].id : i \in {j \in DOMAIN history :
                                                history[j].product_id = id}}
       IN CASE step = "get" ->
                 /\ IF id \notin DOMAIN products
                    THEN Ends(r, q.op, "500", id, Empty, Empty)
                    ELSE /\ requests' = [requests EXCEPT
                                            ![r].todo = <<"cascade">>,
                                            ![r].product_id = id]
                         /\ UNCHANGED last
                 /\ UNCHANGED product_vars
            [] step = "cascade" ->
                 /\ requests' = [requests EXCEPT
                                    ![r].todo = <<"flush">>,
                                    ![r].price_rows = mine(price_history),
                                    ![r].stock_rows = mine(stock_history)]
                 /\ UNCHANGED <<product_vars, last>>
            [] OTHER ->
                 IF id \in DOMAIN products
                    /\ ~(mine(price_history) \subseteq q.price_rows
                         /\ mine(stock_history) \subseteq q.stock_rows)
                 THEN /\ Ends(r, q.op, "500", id, Empty, Empty)
                      /\ UNCHANGED product_vars
                 ELSE /\ Commit(delete(DB, id))
                      /\ IF Tail(q.ids) = <<>>
                         THEN Ends(r, q.op, "200", id, Empty, Empty)
                         ELSE /\ requests' = [requests EXCEPT
                                    ![r].todo = <<"get">>,
                                    ![r].ids = Tail(@),
                                    ![r].deleted = Append(@, id),
                                    ![r].price_rows = {},
                                    ![r].stock_rows = {}]
                              /\ UNCHANGED last
    /\ UNCHANGED supplier_vars

----------------------------------------------------------------------------
(* Suppliers: schemas, repository (BaseRepository over Supplier), service *)

SDB == [suppliers |-> suppliers, supplier_seq |-> supplier_seq]

SCommit(sdb) ==
    /\ suppliers' = sdb.suppliers
    /\ supplier_seq' = sdb.supplier_seq

SupplierBase(s) == s.credit_rating >= 0 /\ s.credit_rating <= 5

SupplierUpdate(s) ==
    "credit_rating" \in DOMAIN s => (s.credit_rating >= 0 /\ s.credit_rating <= 5)

rating_above_range(credit_rating) == credit_rating > 5

\* The service's own range test, repeated in create, update and both batches.
rating_out_of_range(credit_rating) == credit_rating < 0 \/ credit_rating > 5

supplier_get(sdb, id) ==
    IF id \in DOMAIN sdb.suppliers
    THEN [exc |-> "none", obj |-> sdb.suppliers[id]]
    ELSE [exc |-> "NotFoundException"]

supplier_create(sdb, obj_in) ==
    [sdb EXCEPT !.suppliers = (sdb.supplier_seq :> obj_in) @@ @,
                !.supplier_seq = @ + 1]

RECURSIVE supplier_batch_create(_, _)
supplier_batch_create(sdb, objs_in) ==
    IF objs_in = <<>> THEN sdb
    ELSE supplier_batch_create(supplier_create(sdb, Head(objs_in)), Tail(objs_in))

supplier_update_every_row(sdb, id, update_data) ==
    [sdb EXCEPT !.suppliers =
        [i \in DOMAIN @ |->
            [field \in DOMAIN @[i] |->
                IF field \in DOMAIN update_data
                THEN update_data[field] ELSE @[i][field]]]]

supplier_update(sdb, id, update_data) ==
    [sdb EXCEPT !.suppliers[id] =
        [field \in DOMAIN @ |->
            IF field \in DOMAIN update_data THEN update_data[field] ELSE @[field]]]

supplier_delete(sdb, id) ==
    [sdb EXCEPT !.suppliers = [i \in DOMAIN @ \ {id} |-> @[i]]]

\* select ... where id in ids: the rows that exist
existing_ids(sdb, ids) == Range(ids) \cap DOMAIN sdb.suppliers

batch_update(sdb, ids, update_data) ==
    [sdb EXCEPT !.suppliers =
        [i \in DOMAIN @ |->
            IF i \in Range(ids)
            THEN [field \in DOMAIN @[i] |->
                    IF field \in DOMAIN update_data
                    THEN update_data[field] ELSE @[i][field]]
            ELSE @[i]]]

batch_delete_first(sdb, ids) ==
    [sdb EXCEPT !.suppliers =
        [i \in DOMAIN @ \ (IF ids = <<>> THEN {} ELSE {Head(ids)}) |-> @[i]]]

batch_delete(sdb, ids) ==
    [sdb EXCEPT !.suppliers = [i \in DOMAIN @ \ Range(ids) |-> @[i]]]

create_supplier(sdb, supplier_in) ==
    IF rating_out_of_range(supplier_in.credit_rating)
    THEN [db |-> sdb, exc |-> "HTTPException400", ret |-> {}]
    ELSE [db |-> supplier_create(sdb, supplier_in), exc |-> "none",
          ret |-> {sdb.supplier_seq}]

update_supplier(sdb, id, supplier_in) ==
    LET g == supplier_get(sdb, id) IN
    IF g.exc # "none"
    THEN [db |-> sdb, exc |-> g.exc, ret |-> {}]
    ELSE IF "credit_rating" \in DOMAIN supplier_in
            /\ rating_out_of_range(supplier_in.credit_rating)
         THEN [db |-> sdb, exc |-> "HTTPException400", ret |-> {}]
         ELSE [db |-> supplier_update(sdb, id, supplier_in), exc |-> "none",
               ret |-> {id}]

delete_supplier(sdb, id) ==
    LET g == supplier_get(sdb, id) IN
    IF g.exc # "none"
    THEN [db |-> sdb, exc |-> g.exc, ret |-> {}]
    ELSE [db |-> supplier_delete(sdb, id), exc |-> "none", ret |-> {id}]

\* Validation interleaved with the writes: each record is checked just
\* before it is stored.
RECURSIVE batch_create_suppliers_one_by_one(_, _)
batch_create_suppliers_one_by_one(sdb, suppliers_in) ==
    IF suppliers_in = <<>>
    THEN [db |-> sdb, exc |-> "none", ret |-> {}]
    ELSE IF rating_out_of_range(Head(suppliers_in).credit_rating)
         THEN [db |-> sdb, exc |-> "HTTPException400", ret |-> {}]
         ELSE LET rest == batch_create_suppliers_one_by_one(
                              supplier_create(sdb, Head(suppliers_in)),
                              Tail(suppliers_in))
              IN [rest EXCEPT !.ret = IF rest.exc = "none"
                                      THEN @ \cup {sdb.supplier_seq} ELSE @]

batch_create_suppliers(sdb, suppliers_in) ==
    IF \E i \in DOMAIN suppliers_in :
           rating_out_of_range(suppliers_in[i].credit_rating)
    THEN [db |-> sdb, exc |-> "HTTPException400", ret |-> {}]
    ELSE [db |-> supplier_batch_create(sdb, suppliers_in), exc |-> "none",
          ret |-> {sdb.supplier_seq + i - 1 : i \in DOMAIN suppliers_in}]

batch_update_suppliers(sdb, ids, update_data) ==
    IF "credit_rating" \in DOMAIN update_data
       /\ rating_out_of_range(update_data.credit_rating)
    THEN [db |-> sdb, exc |-> "HTTPException400", ret |-> {}]
    ELSE [db |-> batch_update(sdb, ids, update_data), exc |-> "none",
          ret |-> existing_ids(sdb, ids)]

batch_delete_suppliers(sdb, ids) ==
    [db |-> batch_delete(sdb, ids), exc |-> "none", ret |-> existing_ids(sdb, ids)]

----------------------------------------------------------------------------
(* Supplier requests.  via = "api" is the HTTP endpoint (schema validation *)
(* first); via = "service" is a direct call of the SupplierService method  *)
(* with an object that did not pass through the schema.  last records the  *)
(* operation, the status, the ids of the suppliers returned and the        *)
(* credit ratings the request carried, in request order.                   *)

SBounded(sdb) == sdb.supplier_seq <= MaxSuppliers + 1

supplier_request(op, via, schema_ok, r, ok, ratings) ==
    /\ IF via = "api" /\ ~schema_ok
       THEN /\ UNCHANGED supplier_vars
            /\ last' = [op |-> op, via |-> via, status |-> "422", ret |-> {},
                        ratings |-> ratings]
       ELSE /\ SBounded(r.db)
            /\ SCommit(r.db)
            /\ last' = [op |-> op, via |-> via, status |-> Status(r.exc, ok),
                        ret |-> r.ret, ratings |-> ratings]
    /\ UNCHANGED <<product_vars, requests, exchange_vars>>

ratings_of(supplier_in) ==
    IF "credit_rating" \in DOMAIN supplier_in
    THEN <<supplier_in.credit_rating>> ELSE <<>>

api_create_supplier(via, supplier_in) ==
    supplier_request("create_supplier", via,
                     SupplierBase(supplier_in),
                     create_supplier(SDB, supplier_in), "201",
                     ratings_of(supplier_in))

api_update_supplier(via, supplier_id, supplier_in) ==
    supplier_request("update_supplier", via,
                     SupplierUpdate(supplier_in),
                     update_supplier(SDB, supplier_id, supplier_in), "200",
                     ratings_of(supplier_in))

api_delete_supplier(supplier_id) ==
    supplier_request("delete_supplier", "api",
                     TRUE,
                     delete_supplier(SDB, supplier_id), "200", <<>>)

api_batch_create_suppliers(via, suppliers_in) ==
    supplier_request("batch_create_suppliers", via,
                     /\ suppliers_in # <<>>
                     /\ \A i \in DOMAIN suppliers_in : SupplierBase(suppliers_in[i]),
                     batch_create_suppliers(SDB, suppliers_in), "201",
                     [i \in DOMAIN suppliers_in |-> suppliers_in[i].credit_rating])

api_batch_update_suppliers(via, supplier_ids, update_data) ==
    supplier_request("batch_update_suppliers", via,
                     supplier_ids # <<>> /\ SupplierUpdate(update_data),
                     batch_update_suppliers(SDB, supplier_ids, update_data), "200",
                     ratings_of(update_data))

api_batch_delete_suppliers(supplier_ids) ==
    supplier_request("batch_delete_suppliers", "api",
                     supplier_ids # <<>>,
                     batch_delete_suppliers(SDB, supplier_ids), "200", <<>>)

----------------------------------------------------------------------------
(* Query building.  A filter map is a function from keys to values; a key   *)
(* whose value would be None is absent from the map.  A {min, max} range is *)
(* a function over a subset of {"min", "max"}; an absent bound is None.     *)
(* The product repository tells a range by its key; the supplier            *)
(* repository asks isinstance(value, dict), so a supplier filter value is   *)
(* [dict |-> FALSE, value |-> the scalar] or [dict |-> TRUE, range |-> the  *)
(* range].                                                                   *)

ProductColumns ==
    {"id", "name", "price", "description", "stock_quantity", "category",
     "discount", "created_at", "updated_at"}

SupplierColumns ==
    {"id", "name", "contact_info", "credit_rating", "created_at", "updated_at"}

lower(c) ==
    CASE c = "A" -> "a" [] c = "B" -> "b" [] c = "C" -> "c" [] c = "P" -> "p"
      [] c = "U" -> "u" [] OTHER -> c

\* column LIKE pattern, case-insensitive: % matches any run of characters,
\* _ any single character.
RECURSIVE ilike(_, _)
ilike(text, pattern) ==
    IF pattern = <<>> THEN text = <<>>
    ELSE IF Head(pattern) = "%"
         THEN \/ ilike(text, Tail(pattern))
              \/ text # <<>> /\ ilike(Tail(text), pattern)
         ELSE /\ text # <<>>
              /\ Head(pattern) = "_" \/ lower(Head(pattern)) = lower(Head(text))
              /\ ilike(Tail(text), Tail(pattern))

\* f"%{search_term}%"
around(search_term) == <<"%">> \o search_term \o <<"%">>

in_range(value, range) ==
    /\ "min" \in DOMAIN range => value >= range.min
    /\ "max" \in DOMAIN range => value <= range.max

\* The where clause of ProductRepository.get_multi_with_suppliers
get_multi_with_suppliers_where(row, kwargs) ==
    \A key \in DOMAIN kwargs :
        CASE key = "category" -> row.category = kwargs[key]
          [] key = "price_range" -> in_range(row.price, kwargs[key])
          [] key = "stock_range" -> in_range(row.stock_quantity, kwargs[key])
          [] key \in ProductColumns -> row[key] = kwargs[key]
          [] OTHER -> TRUE

\* The where clause of ProductRepository.count
count_where(row, kwargs) ==
    \A key \in DOMAIN kwargs :
        CASE key = "category" -> row.category = kwargs[key]
          [] key = "price_range" -> in_range(row.price, kwargs[key])
          [] key = "stock_range" -> in_range(row.stock_quantity, kwargs[key])
          [] key = "search_term" ->
                \/ ilike(row.name, around(kwargs[key]))
                \/ ilike(row.description, around(kwargs[key]))
          [] key \in ProductColumns -> row[key] = kwargs[key]
          [] OTHER -> TRUE

\* The where clause of ProductRepository.search_products: the filters are
\* looked at only under hasattr(Product, key), which price_range and
\* stock_range do not pass.
search_products_where(row, search_term, kwargs) ==
    /\ \/ ilike(row.name, around(search_term))
       \/ ilike(row.description, around(search_term))
    /\ \A key \in DOMAIN kwargs :
          key \in ProductColumns => row[key] = kwargs[key]

\* All orders of a set of ids
Orders(ids) ==
    {o \in [1..Cardinality(ids) -> ids] :
        \A i, j \in DOMAIN o : i # j => o[i] # o[j]}

column(rows, id, key) == IF key = "id" THEN id ELSE rows[id][key]

\* The orders ORDER BY key leaves possible: rows with equal keys come in any
\* order.
order_by(rows, ids, key, descending) ==
    {o \in Orders(ids) :
        \A i, j \in DOMAIN o :
            i < j => IF descending
                     THEN column(rows, o[i], key) >= column(rows, o[j], key)
                     ELSE column(rows, o[i], key) <= column(rows, o[j], key)}

\* The results ProductRepository.get_multi_with_suppliers can return
get_multi_with_suppliers(rows, skip, limit, sort_by, sort_order, kwargs) ==
    LET ids == {id \in DOMAIN rows :
                    get_multi_with_suppliers_where(rows[id], kwargs)}
        ordered == IF sort_by # None /\ sort_by \in ProductColumns
                   THEN order_by(rows, ids, sort_by, sort_order = "desc")
                   ELSE order_by(rows, ids, "id", FALSE)
    IN {offset_limit(o, skip, limit) : o \in ordered}

count(rows, kwargs) ==
    Cardinality({id \in DOMAIN rows : count_where(rows[id], kwargs)})

\* The results ProductRepository.search_products can return: the query has
\* no ORDER BY, so the rows come in an order the database chooses.
search_products(rows, search_term, skip, limit, kwargs) ==
    LET ids == {id \in DOMAIN rows :
                    search_products_where(rows[id], search_term, kwargs)}
    IN {offset_limit(o, skip, limit) : o \in Orders(ids)}

\* The where clause of SupplierRepository.get_multi_with_products
get_multi_with_products_where(row, kwargs) ==
    \A key \in DOMAIN kwargs :
        key \in SupplierColumns =>
            IF key = "credit_rating" /\ kwargs[key].dict
            THEN in_range(row.credit_rating, kwargs[key].range)
            ELSE row[key] = kwargs[key].value

\* The where clause of SupplierRepository.search_suppliers
search_suppliers_where(row, search_term, kwargs) ==
    /\ \/ ilike(row.name, around(search_term))
       \/ ilike(row.contact_info, around(search_term))
    /\ \A key \in DOMAIN kwargs :
          key \in SupplierColumns => row[key] = kwargs[key].value

\* column == value with a dict for value: the statement is refused when it
\* is executed (an integer or text parameter cannot be a dict).
compares_with_dict(kwargs) ==
    \E key \in DOMAIN kwargs : key \in SupplierColumns /\ kwargs[key].dict

\* No ORDER BY here either; sort_by and sort_order arrive among the kwargs
\* and name no column.
get_multi_with_products(rows, skip, limit, kwargs) ==
    LET ids == {id \in DOMAIN rows :
                    get_multi_with_products_where(rows[id], kwargs)}
    IN {offset_limit(o, skip, limit) : o \in Orders(ids)}

search_suppliers(rows, search_term, skip, limit, kwargs) ==
    IF compares_with_dict(kwargs)
    THEN [exc |-> "DBAPIError"]
    ELSE LET ids == {id \in DOMAIN rows :
                        search_suppliers_where(rows[id], search_term, kwargs)}
         IN [exc |-> "none",
             results |-> {offset_limit(o, skip, limit) : o \in Orders(ids)}]

\* BaseRepository.count compares the column with the value whatever the
\* value is.
base_count(rows, kwargs) ==
    IF compares_with_dict(kwargs)
    THEN [exc |-> "DBAPIError"]
    ELSE [exc |-> "none",
          value |-> Cardinality({id \in DOMAIN rows :
                        \A key \in DOMAIN kwargs :
                            key \in SupplierColumns
                                => rows[id][key] = kwargs[key].value})]

----------------------------------------------------------------------------
(* The list endpoints.  A request is a function from the query parameters   *)
(* that were supplied to their values; skip, limit and the sort order have  *)
(* defaults and are always there.  The response record of GET /products     *)
(* also carries the skip and limit the handler passed to the service.       *)

range(req, lo, hi) ==
    (IF lo \in DOMAIN req THEN "min" :> req[lo] ELSE Empty)
    @@ (IF hi \in DOMAIN req THEN "max" :> req[hi] ELSE Empty)

bounds_ok(req, key, lo, hi) ==
    key \in DOMAIN req => (req[key] >= lo /\ req[key] <= hi)

pages_floor(total, size) == IF size > 0 THEN total \div size ELSE 1

page_skip_zero_based(page, actual_size) == page * actual_size

\* actual_skip = (page - 1) * actual_size
page_skip(page, actual_size) == (page - 1) * actual_size

pages(total, size) == IF size > 0 THEN (total + size - 1) \div size ELSE 1

Read(response) ==
    /\ last' = response
    /\ UNCHANGED <<product_vars, supplier_vars, requests, exchange_vars>>

api_get_products(req) ==
    IF ~ /\ req.skip >= 0
         /\ bounds_ok(req, "limit", 1, 100)
         /\ "page" \in DOMAIN req => req.page >= 1
         /\ bounds_ok(req, "size", 1, 100)
    THEN Read([op |-> "get_products", status |-> "422", req |-> req])
    ELSE
    LET actual_size == IF "size" \in DOMAIN req THEN req.size ELSE req.limit
        paged == "page" \in DOMAIN req
        skip == IF paged THEN page_skip(req.page, actual_size) ELSE req.skip
        limit == IF paged THEN actual_size ELSE req.limit
        filters ==
            (IF "category" \in DOMAIN req
             THEN "category" :> req.category ELSE Empty)
            @@ (IF "min_price" \in DOMAIN req \/ "max_price" \in DOMAIN req
                THEN "price_range" :> range(req, "min_price", "max_price")
                ELSE Empty)
            @@ (IF "min_stock" \in DOMAIN req \/ "max_stock" \in DOMAIN req
                THEN "stock_range" :> range(req, "min_stock", "max_stock")
                ELSE Empty)
        results ==
            IF "name" \in DOMAIN req
            THEN search_products(products, req.name, skip, limit, filters)
            ELSE get_multi_with_suppliers(
                     products, skip, limit,
                     IF "sort" \in DOMAIN req THEN req.sort ELSE None,
                     req.order, filters)
        total == count(products, filters)
        current_page == IF paged THEN req.page
                        ELSE IF actual_size > 0
                             THEN skip \div actual_size + 1 ELSE 1
    IN \E items \in results :
          Read([op |-> "get_products", status |-> "200", req |-> req,
                skip |-> skip, limit |-> limit,
                items |-> items, total |-> total, page |-> current_page,
                size |-> actual_size, pages |-> pages(total, actual_size)])

api_get_suppliers(req) ==
    IF ~ /\ req.skip >= 0
         /\ bounds_ok(req, "limit", 1, 100)
         /\ bounds_ok(req, "min_rating", 0, 5)
         /\ bounds_ok(req, "max_rating", 0, 5)
    THEN Read([op |-> "get_suppliers", status |-> "422", req |-> req])
    ELSE
    LET filters ==
            IF "min_rating" \in DOMAIN req \/ "max_rating" \in DOMAIN req
            THEN "credit_rating" :>
                    [dict |-> TRUE,
                     range |-> range(req, "min_rating", "max_rating")]
            ELSE Empty
        listed ==
            IF "name" \in DOMAIN req
            THEN search_suppliers(suppliers, req.name, req.skip, req.limit,
                                  filters)
            ELSE [exc |-> "none",
                  results |-> get_multi_with_products(
                      suppliers, req.skip, req.limit,
                      filters
                      @@ (IF "sort_by" \in DOMAIN req
                          THEN "sort_by" :> [dict |-> FALSE, value |-> req.sort_by]
                          ELSE Empty)
                      @@ ("sort_order" :>
                             [dict |-> FALSE, value |-> req.sort_order]))]
        total == base_count(suppliers, filters)
    IN IF listed.exc # "none" \/ total.exc # "none"
       THEN Read([op |-> "get_suppliers", status |-> "500", req |-> req])
       ELSE \E items \in listed.results :
               Read([op |-> "get_suppliers", status |-> "200", req |-> req,
                     items |-> items, total |-> total.value,
                     page |-> IF req.limit > 0
                              THEN req.skip \div req.limit + 1 ELSE 1,
                     page_size |-> req.limit,
                     pages |-> pages(total.value, req.limit)])

\* count(F) next to list(skip = 0, limit = large, filters = F), on the
\* product repository and on the supplier repository.
Unbounded == MaxStored + MaxSuppliers + 1

count_and_list_products(filters) ==
    \E listed \in get_multi_with_suppliers(products, 0, Unbounded, None, None,
                                           filters) :
        Read([op |-> "count_and_list_products", filters |-> filters,
              exc |-> "none", count |-> count(products, filters),
              listed |-> Len(listed)])

count_and_list_suppliers(filters) ==
    LET total == base_count(suppliers, filters) IN
    \E listed \in get_multi_with_products(suppliers, 0, Unbounded, filters) :
        IF total.exc # "none"
        THEN Read([op |-> "count_and_list_suppliers", filters |-> filters,
                   exc |-> total.exc, listed |-> Len(listed)])
        ELSE Read([op |-> "count_and_list_suppliers", filters |-> filters,
                   exc |-> "none", count |-> total.value,
                   listed |-> Len(listed)])

----------------------------------------------------------------------------
(* Inputs of the requests *)

ProductIdInputs == 1..(MaxProducts + 1)

product(price, stock_quantity, discount) ==
    [name |-> Cap, price |-> price, description |-> <<>>,
     stock_quantity |-> stock_quantity, category |-> "Tools",
     discount |-> discount]

ProductCreateInputs ==
    {product(1, 0, 0), product(2, 0, 0), product(1, 1, 0), product(2, 1, 0),
     product(-1, 0, 0), product(1, -1, 0), product(1, 0, 101)}

ProductBatchCreateInputs ==
    {product(1, 0, 0), product(2, 1, 0), product(-1, 0, 0)}

\* Objects built without validation: the second carries no price.
UnvalidatedProducts ==
    {product(1, 0, 0),
     [name |-> Cap, description |-> <<>>, stock_quantity |-> 0,
      category |-> "Tools", discount |-> 0]}

ProductUpdateInputs ==
    {a @@ b @@ c :
        a \in Opt("price", {1, 2}),
        b \in Opt("stock_quantity", {0, 1}),
        c \in Opt("change_reason", {"restock"})}
    \cup {"price" :> -1, "stock_quantity" :> -1, "discount" :> 101}

ProductBatchUpdateInputs ==
    {("id" :> i) @@ a :
        i \in ProductIdInputs,
        a \in {"price" :> -1, "price" :> 2, "stock_quantity" :> 1,
               ("price" :> 2) @@ ("stock_quantity" :> 1)}}

SupplierIdInputs == 1..(MaxSuppliers + 1)

\* Bodies of POST /products that name suppliers: one that can exist and one
\* that never does.
SupplierIdsInputs == {<<1>>, <<1, MaxSuppliers + 1>>}

CatalogCreateInputs ==
    {product(1, 0, 0)}
    \cup {product(1, 0, 0) @@ ("supplier_ids" :> ids) : ids \in SupplierIdsInputs}

DateInputs ==
    {Empty, "start_date" :> "past", "end_date" :> "past",
     ("start_date" :> "past") @@ ("end_date" :> "future")}

CatalogUpdateInputs ==
    {"price" :> 1, "price" :> 2, "stock_quantity" :> 1, "discount" :> 101}

CatalogBatchUpdateInputs ==
    {("id" :> i) @@ ("price" :> 2) : i \in ProductIdInputs}

RatingInputs == {-1, 0, 5, 6}

SupplierCreateInputs ==
    [name : {Acme}, contact_info : {mail}, credit_rating : RatingInputs]

SupplierUpdateInputs ==
    {a @@ b @@ c :
        a \in Opt("name", {Bolt}),
        b \in Opt("contact_info", {phone}),
        c \in Opt("credit_rating", {0, 5, 6})}

\* The patches of a batch update: one field, a rating at the edge of the
\* range, a rating out of range, and two fields.
SupplierBatchUpdateInputs ==
    {"name" :> Bolt, "credit_rating" :> 5, "credit_rating" :> 6,
     ("contact_info" :> phone) @@ ("credit_rating" :> 0)}

Defaults == ("skip" :> 0) @@ ("limit" :> 10) @@ ("order" :> "asc")

ProductQueryInputs ==
    {a @@ b @@ c @@ d @@ ("order" :> "asc") :
        a \in Opt("page", {1, 2, 3}),
        b \in Opt("size", {1, 2}),
        c \in {("skip" :> 0) @@ ("limit" :> 10), ("skip" :> 1) @@ ("limit" :> 2)},
        d \in Opt("category", {"Tools"})}
    \cup {("page" :> 1) @@ ("size" :> 2) @@ a @@ b @@ c @@ d @@ Defaults :
        a \in Opt("min_price", {2}),
        b \in Opt("max_price", {1}),
        c \in Opt("min_stock", {1}),
        d \in Opt("max_stock", {0})}
    \cup {("name" :> n) @@ a @@ b @@ c @@ Defaults :
        n \in {<<"c">>, <<"a", "p">>, <<"_", "u">>},
        a \in Opt("category", {"Tools"}),
        b \in Opt("min_price", {2}),
        c \in {Empty, ("page" :> 2) @@ ("size" :> 1)}}
    \cup {("sort" :> f) @@ ("order" :> o) @@ a @@ Defaults :
        f \in {"price", "bogus"},
        o \in {"asc", "desc"},
        a \in {Empty, ("page" :> 2) @@ ("size" :> 1)}}
    \cup {("page" :> 0) @@ Defaults}

SupplierQueryInputs ==
    {a @@ b @@ c @@ d @@ ("sort_order" :> "asc") :
        a \in {("skip" :> 0) @@ ("limit" :> 100), ("skip" :> 1) @@ ("limit" :> 1)},
        b \in Opt("name", {<<"a">>}),
        c \in Opt("min_rating", {3}),
        d \in Opt("max_rating", {3})}
    \cup {("min_rating" :> 6) @@ ("skip" :> 0) @@ ("limit" :> 100)
          @@ ("sort_order" :> "asc")}
    \cup {("sort_by" :> f) @@ ("sort_order" :> o) @@ ("skip" :> 0)
          @@ ("limit" :> 100) :
        f \in {"credit_rating", "bogus"}, o \in {"asc", "desc"}}

ProductFilterInputs ==
    {a @@ b @@ c @@ d :
        a \in Opt("category", {"Tools"}),
        b \in Opt("price_range",
                  {"min" :> 2, "max" :> 1, ("min" :> 1) @@ ("max" :> 2)}),
        c \in Opt("stock_range", {"min" :> 1}),
        d \in Opt("name", {Cap})}

SupplierFilterInputs ==
    {a @@ b :
        a \in Opt("credit_rating",
                  {[dict |-> FALSE, value |-> 5],
                   [dict |-> TRUE, range |-> "min" :> 3],
                   [dict |-> TRUE, range |-> "max" :> 3],
                   [dict |-> TRUE, range |-> ("min" :> 3) @@ ("max" :> 5)]}),
        b \in Opt("name", {[dict |-> FALSE, value |-> Acme]})}

\* The rows a store holds when the queries start
StoredProducts ==
    {[name |-> Cap, price |-> 1, description |-> <<>>, stock_quantity |-> 0,
      category |-> "Tools", discount |-> 0],
     [name |-> cup, price |-> 2, description |-> <<>>, stock_quantity |-> 1,
      category |-> "Toys", discount |-> 0]}

StoredSuppliers ==
    {[name |-> Acme, contact_info |-> mail, credit_rating |-> 5],
     [name |-> Bolt, contact_info |-> phone, credit_rating |-> 3]}

----------------------------------------------------------------------------
(* Specifications *)

Init ==
    /\ products = Empty
    /\ product_seq = 1
    /\ product_suppliers = {}
    /\ requests = Empty
    /\ sessions = Empty
    /\ responses = Empty
    /\ price_history = <<>>
    /\ price_history_seq = 1
    /\ stock_history = <<>>
    /\ stock_history_seq = 1
    /\ suppliers = Empty
    /\ supplier_seq = 1
    /\ last = [op |-> "none", status |-> "none", named |-> <<>>, ret |-> <<>>,
               rows |-> <<0, 0>>, fields |-> {}]

\* The handlers that act on one product.
Next ==
    \/ \E product_in \in ProductCreateInputs : api_create_product(product_in)
    \/ \E product_id \in ProductIdInputs, product_in \in ProductUpdateInputs :
          api_update_product(product_id, product_in)
    \/ \E product_id \in ProductIdInputs : api_delete_product(product_id)

Spec == Init /\ [][Next]_vars

\* The batch handlers of /products.
NextBatch ==
    \/ \E products_in \in NonEmptySeqsUpTo(ProductBatchCreateInputs, MaxBatch) :
          api_batch_create_products(products_in)
    \/ \E products_in \in NonEmptySeqsUpTo(UnvalidatedProducts, MaxBatch) :
          service_batch_create_products(products_in)
    \/ \E updates \in NonEmptySeqsUpTo(ProductBatchUpdateInputs, MaxBatch) :
          api_batch_update_products(updates)
    \/ \E ids \in SeqsUpTo(ProductIdInputs, MaxBatch) :
          api_batch_delete_products(ids)

SpecBatch == Init /\ [][NextBatch]_vars

NextSupplier ==
    \/ \E via \in {"api", "service"}, supplier_in \in SupplierCreateInputs :
          api_create_supplier(via, supplier_in)
    \/ \E via \in {"api", "service"}, supplier_id \in SupplierIdInputs,
          supplier_in \in SupplierUpdateInputs :
          api_update_supplier(via, supplier_id, supplier_in)
    \/ \E supplier_id \in SupplierIdInputs : api_delete_supplier(supplier_id)
    \/ \E via \in {"api", "service"},
          suppliers_in \in SeqsUpTo(SupplierCreateInputs, MaxBatch) :
          api_batch_create_suppliers(via, suppliers_in)
    \/ \E via \in {"api", "service"},
          supplier_ids \in SeqsUpTo(SupplierIdInputs, MaxBatch),
          update_data \in SupplierUpdateInputs :
          api_batch_update_suppliers(via, supplier_ids, update_data)
    \/ \E supplier_ids \in SeqsUpTo(SupplierIdInputs, MaxBatch) :
          api_batch_delete_suppliers(supplier_ids)

SpecSupplier == Init /\ [][NextSupplier]_vars

\* The batch update and the batch delete of suppliers, on suppliers created
\* one at a time.
NextSupplierBatch ==
    \/ \E supplier_in \in SupplierCreateInputs :
          api_create_supplier("api", supplier_in)
    \/ \E via \in {"api", "service"},
          supplier_ids \in SeqsUpTo(SupplierIdInputs, MaxBatch),
          update_data \in SupplierBatchUpdateInputs :
          api_batch_update_suppliers(via, supplier_ids, update_data)
    \/ \E supplier_ids \in SeqsUpTo(SupplierIdInputs, MaxBatch) :
          api_batch_delete_suppliers(supplier_ids)

SpecSupplierBatch == Init /\ [][NextSupplierBatch]_vars

\* Every handler of /products, the price history read and the creation and
\* deletion of suppliers, one request after the other.
NextCatalog ==
    \/ \E body \in CatalogCreateInputs : api_create_product(body)
    \/ \E product_in \in CatalogCreateInputs : service_create_product(product_in)
    \/ \E product_id \in ProductIdInputs, product_in \in CatalogUpdateInputs :
          api_update_product(product_id, product_in)
    \/ \E product_id \in ProductIdInputs : api_delete_product(product_id)
    \/ \E product_id \in ProductIdInputs : api_get_product(product_id)
    \/ \E product_id \in ProductIdInputs : api_get_price_history(product_id)
    \/ \E product_id \in ProductIdInputs, supplier_id \in SupplierIdInputs :
          api_add_supplier_to_product(product_id, supplier_id)
    \/ \E product_id \in ProductIdInputs, supplier_id \in SupplierIdInputs :
          api_remove_supplier_from_product(product_id, supplier_id)
    \/ \E products_in \in NonEmptySeqsUpTo({product(2, 1, 0)}, MaxBatch) :
          api_batch_create_products(products_in)
    \/ \E updates \in NonEmptySeqsUpTo(CatalogBatchUpdateInputs, MaxBatch) :
          api_batch_update_products(updates)
    \/ \E ids \in SeqsUpTo(ProductIdInputs, MaxBatch) :
          api_batch_delete_products(ids)
    \/ \E supplier_in \in {[name |-> Acme, contact_info |-> mail,
                             credit_rating |-> 5]} :
          api_create_supplier("api", supplier_in)
    \/ \E supplier_id \in SupplierIdInputs : api_delete_supplier(supplier_id)

SpecCatalog == Init /\ [][NextCatalog]_vars

\* Updates and deletions of products that overlap in time, on a store that
\* holds MaxProducts products.
RaceUpdateInputs ==
    {"price" :> 2, "stock_quantity" :> 1,
     ("price" :> 2) @@ ("stock_quantity" :> 1) @@ ("change_reason" :> "restock"),
     "price" :> -1}

InitRace ==
    /\ products = [id \in 1..MaxProducts |-> product(1, 0, 0)]
    /\ product_seq = MaxProducts + 1
    /\ product_suppliers = {}
    /\ price_history = <<>>
    /\ price_history_seq = 1
    /\ stock_history = <<>>
    /\ stock_history_seq = 1
    /\ suppliers = Empty
    /\ supplier_seq = 1
    /\ requests = Empty
    /\ sessions = Empty
    /\ responses = Empty
    /\ last = [op |-> "none", status |-> "none", product_id |-> 0,
               product |-> Empty, update_data |-> Empty]

NextRace ==
    \/ \E r \in RequestIds, product_id \in ProductIdInputs,
          product_in \in RaceUpdateInputs :
          /\ begin_update_product(r, product_id, product_in)
          /\ UNCHANGED exchange_vars
    \/ \E r \in RequestIds :
          step_update_product(r) /\ UNCHANGED exchange_vars
    \/ \E r \in RequestIds, product_id \in ProductIdInputs :
          /\ begin_delete_products(r, "delete_product", <<product_id>>)
          /\ UNCHANGED exchange_vars
    \/ \E r \in RequestIds,
          ids \in NonEmptySeqsUpTo(ProductIdInputs, MaxBatch) :
          /\ begin_delete_products(r, "batch_delete_products", ids)
          /\ UNCHANGED exchange_vars
    \/ \E r \in RequestIds :
          step_delete_products(r) /\ UNCHANGED exchange_vars

SpecRace == InitRace /\ [][NextRace]_vars

\* The reads of HistoryService, on the stores that creations, updates and
\* deletions of products lead to.
NextHistory ==
    \/ \E body \in {product(1, 0, 0)} : api_create_product(body)
    \/ \E product_id \in ProductIdInputs, product_in \in CatalogUpdateInputs :
          api_update_product(product_id, product_in)
    \/ \E product_id \in ProductIdInputs : api_delete_product(product_id)
    \/ \E method \in HistoryReads, product_id \in ProductIdInputs,
          dates \in DateInputs :
          history_service_read(method, product_id, dates)

SpecHistory == Init /\ [][NextHistory]_vars

\* The clients of test_concurrent_updates: each of MaxRequests clients sends
\* one PUT /products/{id} with a stock_quantity of its own, all to the same
\* product and while the others are in progress; responses records the
\* status each amount was answered with.
Amounts == 1..MaxRequests

Sent(amount) ==
    \/ amount \in DOMAIN responses
    \/ \E q \in DOMAIN requests : requests[q].update_data.stock_quantity = amount

Target(product_id) ==
    /\ \A q \in DOMAIN requests : requests[q].product_id = product_id
    /\ last.op = "none" \/ last.product_id = product_id

Receives(r, amount) ==
    /\ responses' = IF r \in DOMAIN requests' THEN responses
                    ELSE responses @@ (amount :> last'.status)
    /\ UNCHANGED sessions

update_stock(r, product_id, amount, reason) ==
    /\ ~Sent(amount)
    /\ Target(product_id)
    /\ begin_update_product(r, product_id, ("stock_quantity" :> amount) @@ reason)
    /\ Receives(r, amount)

update_stock_proceeds(r) ==
    /\ step_update_product(r)
    /\ Receives(r, requests[r].update_data.stock_quantity)

NextConcurrentUpdates ==
    \/ \E r \in RequestIds, product_id \in 1..MaxProducts, amount \in Amounts,
          reason \in Opt("change_reason", {"restock"}) :
          update_stock(r, product_id, amount, reason)
    \/ \E r \in RequestIds : update_stock_proceeds(r)

SpecConcurrentUpdates == InitRace /\ [][NextConcurrentUpdates]_vars

\* The sessions of get_db.  Each request of the API has Depends(get_db) once,
\* through CommonDependencies; the framework runs get_db up to its yield
\* before the handler and resumes it when the request has ended, with the
\* exception if there was one.  sessions[s] holds the position of the s-th
\* call of get_db (select_1, yielded, handler, finally, closed) and the
\* place in requests of the request it serves; responses[s] is the status
\* the request was answered with.
SessionIds == 1..MaxSessions

\* A get_db without the finally clause: the session is closed after the
\* yield only.
leaves_try_on_return(status) == IF status = "200" THEN "finally" ELSE "raised"

\* Where get_db goes when it leaves its try block: the finally clause, on a
\* return and on an exception alike.
leaves_try(status) == "finally"

\* session = AsyncSessionLocal()
get_db(s) ==
    /\ s = Cardinality(DOMAIN sessions) + 1
    /\ sessions' = sessions @@ (s :> [at |-> "select_1", request |-> 0])
    /\ UNCHANGED <<product_vars, supplier_vars, requests, responses, last>>

\* await session.execute(text("SELECT 1")): the session is yielded, or the
\* statement fails and the request is answered 500.
select_1(s, connected) ==
    /\ s \in DOMAIN sessions
    /\ sessions[s].at = "select_1"
    /\ IF connected
       THEN /\ sessions' = [sessions EXCEPT ![s].at = "yielded"]
            /\ UNCHANGED responses
       ELSE /\ sessions' = [sessions EXCEPT ![s].at = leaves_try("500")]
            /\ responses' = responses @@ (s :> "500")
    /\ UNCHANGED <<product_vars, supplier_vars, requests, last>>

\* The session of request r after a step of r: in the handler while r is in
\* progress, out of the try block when r has ended.
Serves(s, r) ==
    IF r \in DOMAIN requests'
    THEN /\ sessions' = [sessions EXCEPT ![s] = [at |-> "handler", request |-> r]]
         /\ UNCHANGED responses
    ELSE /\ sessions' = [sessions EXCEPT ![s] = [at |-> leaves_try(last'.status),
                                                 request |-> r]]
         /\ responses' = responses @@ (s :> last'.status)

\* PUT /products/{product_id} with the yielded session
put_product(s, r, product_id, product_in) ==
    /\ s \in DOMAIN sessions
    /\ sessions[s].at = "yielded"
    /\ begin_update_product(r, product_id, product_in)
    /\ Serves(s, r)

\* DELETE /products/{product_id} with the yielded session
delete_product_by_id(s, r, product_id) ==
    /\ s \in DOMAIN sessions
    /\ sessions[s].at = "yielded"
    /\ begin_delete_products(r, "delete_product", <<product_id>>)
    /\ Serves(s, r)

\* The next database operation of the handler that holds session s
handler_proceeds(s) ==
    /\ s \in DOMAIN sessions
    /\ sessions[s].at = "handler"
    /\ \/ step_update_product(sessions[s].request)
       \/ step_delete_products(sessions[s].request)
    /\ Serves(s, sessions[s].request)

\* finally: await session.close()
close(s) ==
    /\ s \in DOMAIN sessions
    /\ sessions[s].at = "finally"
    /\ sessions' = [sessions EXCEPT ![s].at = "closed"]
    /\ UNCHANGED <<product_vars, supplier_vars, requests, responses, last>>

SessionUpdateInputs == {"price" :> 2, "price" :> -1}

\* What becomes of session s next.
Resumes(s) ==
    \/ \E connected \in BOOLEAN : select_1(s, connected)
    \/ \E r \in RequestIds, product_id \in ProductIdInputs,
          product_in \in SessionUpdateInputs :
          put_product(s, r, product_id, product_in)
    \/ \E r \in RequestIds, product_id \in 1..MaxProducts :
          delete_product_by_id(s, r, product_id)
    \/ handler_proceeds(s)
    \/ close(s)

NextSession ==
    \/ \E s \in SessionIds : get_db(s)
    \/ \E s \in SessionIds : Resumes(s)

SpecSession == InitRace /\ [][NextSession]_vars

\* The event loop resumes a coroutine whose awaited statement has completed:
\* no session waits for ever at a step it can take.
SpecSessionFair ==
    SpecSession /\ \A s \in SessionIds : WF_vars(Resumes(s))

\* The read side: a store that holds some products or some suppliers, and
\* the list and count queries on it.  No query reads both tables, so the
\* stores that fill both add no behaviour of a query.
InitQuery ==
    \E rows \in SeqsUpTo(StoredProducts, MaxStored),
       srows \in SeqsUpTo(StoredSuppliers, MaxSuppliers) :
        /\ rows = <<>> \/ srows = <<>>
        /\ products = rows
        /\ product_seq = Len(rows) + 1
        /\ product_suppliers = {}
        /\ requests = Empty
        /\ sessions = Empty
        /\ responses = Empty
        /\ price_history = <<>>
        /\ price_history_seq = 1
        /\ stock_history = <<>>
        /\ stock_history_seq = 1
        /\ suppliers = srows
        /\ supplier_seq = Len(srows) + 1
        /\ last = [op |-> "none", status |-> "none"]

NextQuery ==
    \/ \E req \in ProductQueryInputs : api_get_products(req)
    \/ \E req \in SupplierQueryInputs : api_get_suppliers(req)
    \/ \E filters \in ProductFilterInputs : count_and_list_products(filters)
    \/ \E filters \in SupplierFilterInputs : count_and_list_suppliers(filters)

SpecQuery == InitQuery /\ [][NextQuery]_vars

----------------------------------------------------------------------------
(* Properties of the tracked update pipeline *)

Last(seq) == seq[Len(seq)]

\* C1: a successful update_product of an existing product whose patch
\* carries a price v different from the current price c appends exactly one
\* PriceHistory row, (product, old_price = c, new_price = v), appends no
\* other PriceHistory row and leaves the product's price at v.
C1_PriceChangeAppendsOneRow ==
    [][(last'.op = "update_product" /\ last'.status = "200") =>
        \A product_id \in DOMAIN products :
        \A product_in \in {p \in ProductUpdateInputs : DOMAIN p = last'.fields} :
            ( /\ "price" \in DOMAIN product_in
              /\ product_in.price # products[product_id].price
              /\ api_update_product(product_id, product_in) )
            => /\ price_history' =
                    Append(price_history,
                           [id |-> price_history_seq,
                            product_id |-> product_id,
                            old_price |-> products[product_id].price,
                            new_price |-> product_in.price])
               /\ products'[product_id].price = product_in.price]_vars

C1_Witness ==
    /\ last.op = "update_product"
    /\ last.status = "200"
    /\ "price" \in last.fields
    /\ last.rows[1] = 1
    /\ price_history # <<>>
    /\ Last(price_history).product_id = last.ret[1]
    /\ Last(price_history).new_price = products[last.ret[1]].price
    /\ Last(price_history).old_price # Last(price_history).new_price

\* C2: an update whose tracked fields (price, stock_quantity) all carry the
\* product's current values leaves both history tables as they were, in
\* every state, so however often the update is repeated.
NoOpPatch(product_in, current) ==
    /\ {"price", "stock_quantity"} \cap DOMAIN product_in # {}
    /\ "price" \in DOMAIN product_in => product_in.price = current.price
    /\ "stock_quantity" \in DOMAIN product_in
          => product_in.stock_quantity = current.stock_quantity

C2_NoOpUpdateNoHistory ==
    [][last'.op = "update_product" =>
        \A product_id \in DOMAIN products :
        \A product_in \in {p \in ProductUpdateInputs : DOMAIN p = last'.fields} :
            ( /\ NoOpPatch(product_in, products[product_id])
              /\ api_update_product(product_id, product_in) )
            => UNCHANGED <<price_history, price_history_seq,
                           stock_history, stock_history_seq>>]_vars

C2_Witness ==
    /\ last.op = "update_product"
    /\ last.status = "200"
    /\ {"price", "stock_quantity"} \subseteq last.fields
    /\ last.rows = <<0, 0>>
    /\ price_history # <<>>
    /\ Last(price_history).product_id = last.ret[1]

----------------------------------------------------------------------------
(* Properties of the batch operations on products *)

Missing(ids) == {id \in Range(ids) : id \notin DOMAIN products}

Existing(ids) == Range(ids) \cap DOMAIN products

RowsOf(history, ids) == SelectSeq(history, LAMBDA r : r.product_id \in ids)

\* C3: strict batch delete: when an id of the list does not exist the call
\* fails, the error names exactly the missing ids, and every product of the
\* list that existed before the call still exists, with its history rows.
C3_StrictBatchDelete ==
    [][last'.op = "batch_delete_products" =>
        \A ids \in NonEmptySeqsUpTo(ProductIdInputs, MaxBatch) :
            ( /\ api_batch_delete_products(ids)
              /\ Missing(ids) # {} )
            => /\ last'.status # "200"
               /\ Range(last'.named) = Missing(ids)
               /\ \A id \in Existing(ids) :
                     /\ id \in DOMAIN products'
                     /\ products'[id] = products[id]
               /\ RowsOf(price_history', Existing(ids))
                     = RowsOf(price_history, Existing(ids))
               /\ RowsOf(stock_history', Existing(ids))
                     = RowsOf(stock_history, Existing(ids))]_vars

\* C4: lenient batch delete (DELETE /products/batch): for a list that mixes
\* existing and missing ids the request succeeds, deletes exactly the
\* existing ids and returns exactly those ids as deleted.
C4_LenientBatchDelete ==
    [][last'.op = "batch_delete_products" =>
        \A ids \in NonEmptySeqsUpTo(ProductIdInputs, MaxBatch) :
            ( /\ api_batch_delete_products(ids)
              /\ Missing(ids) # {}
              /\ Existing(ids) # {} )
            => /\ last'.status = "200"
               /\ DOMAIN products' = DOMAIN products \ Range(ids)
               /\ Range(last'.ret) = Existing(ids)]_vars

\* C5: strict batch update: when an item names an id that does not exist the
\* whole batch fails, the error names the missing ids, no product named in
\* the batch is modified and no history row is appended.
C5_StrictBatchUpdate ==
    [][last'.op = "batch_update_products" =>
        \A updates \in NonEmptySeqsUpTo(ProductBatchUpdateInputs, MaxBatch) :
            LET ids == [i \in DOMAIN updates |-> updates[i].id] IN
            ( /\ api_batch_update_products(updates)
              /\ Missing(ids) # {} )
            => /\ last'.status # "200"
               /\ Range(last'.named) = Missing(ids)
               /\ products' = products
               /\ price_history' = price_history
               /\ stock_history' = stock_history]_vars

----------------------------------------------------------------------------
(* Properties of the supplier rating bound *)

InRange(credit_rating) == credit_rating >= 0 /\ credit_rating <= 5

OutOfRange(ratings) == \E i \in DOMAIN ratings : ~InRange(ratings[i])

\* C6: every stored supplier has credit_rating in [0,5] after every create,
\* update, batch create and batch update, through the endpoint or by a direct
\* call of the service, and a request that carries a rating outside [0,5]
\* writes nothing: the value is rejected, not clamped into range.
C6_SupplierRatingInRange ==
    [][/\ \A id \in DOMAIN suppliers' : InRange(suppliers'[id].credit_rating)
       /\ OutOfRange(last'.ratings)
             => /\ last'.status \in {"400", "422", "500"}
                /\ UNCHANGED supplier_vars]_vars

C6_Witness ==
    /\ last.op = "update_supplier"
    /\ last.via = "service"
    /\ last.ratings = <<6>>
    /\ last.status = "400"
    /\ \E id \in DOMAIN suppliers : suppliers[id].credit_rating = 5

\* C7: a batch_create_suppliers call with a record whose credit_rating is
\* outside [0,5] fails and leaves the supplier table exactly as it was, the
\* in-range records that precede the offending one included; a create_supplier
\* with an out-of-range rating (6) leaves no row either.
C7_BatchCreateRejectsWhole ==
    [][/\ last'.op = "batch_create_suppliers" =>
            \A via \in {"api", "service"} :
            \A suppliers_in \in
                {l \in SeqsUpTo(SupplierCreateInputs, MaxBatch) :
                    [i \in DOMAIN l |-> l[i].credit_rating] = last'.ratings} :
                ( /\ \E i \in DOMAIN suppliers_in :
                        ~InRange(suppliers_in[i].credit_rating)
                  /\ api_batch_create_suppliers(via, suppliers_in) )
                => /\ last'.status # "201"
                   /\ suppliers' = suppliers
                   /\ supplier_seq' = supplier_seq
       /\ last'.op = "create_supplier" =>
            \A via \in {"api", "service"} :
            \A supplier_in \in SupplierCreateInputs :
                ( /\ ~InRange(supplier_in.credit_rating)
                  /\ api_create_supplier(via, supplier_in) )
                => /\ last'.status # "201"
                   /\ suppliers' = suppliers
                   /\ supplier_seq' = supplier_seq]_vars

C7_Witness ==
    /\ last.op = "batch_create_suppliers"
    /\ last.via = "service"
    /\ last.status = "400"
    /\ Len(last.ratings) = 2
    /\ InRange(last.ratings[1])
    /\ ~InRange(last.ratings[2])
    /\ DOMAIN suppliers = {1}

----------------------------------------------------------------------------
(* Properties of the list and count queries *)

\* C9: for every filter map F, count(F) equals the length of
\* list(skip = 0, limit = unbounded, filters = F), on the product repository
\* and on the supplier repository, whose count receives credit_rating as a
\* {min, max} range from the list endpoint.
C9_CountMatchesList ==
    last.op \in {"count_and_list_products", "count_and_list_suppliers"}
        => /\ last.exc = "none"
           /\ last.count = last.listed

\* The products a list request without a search term asks for: category
\* equal, price within min_price..max_price, stock within min_stock..max_stock.
Matching(req) ==
    {id \in DOMAIN products :
        /\ "category" \in DOMAIN req => products[id].category = req.category
        /\ "min_price" \in DOMAIN req => products[id].price >= req.min_price
        /\ "max_price" \in DOMAIN req => products[id].price <= req.max_price
        /\ "min_stock" \in DOMAIN req
              => products[id].stock_quantity >= req.min_stock
        /\ "max_stock" \in DOMAIN req
              => products[id].stock_quantity <= req.max_stock}

Ceil(n, s) == CHOOSE k \in 0..n : k * s >= n /\ (k = 0 \/ (k - 1) * s < n)

Ascending(ids) ==
    CHOOSE o \in Orders(ids) : \A i, j \in DOMAIN o : i < j => o[i] < o[j]

\* C11: a product list request that carries page and size next to skip and
\* limit is executed with skip = (page - 1) * size and limit = size, whatever
\* skip and limit were: without a search term and a sort field it returns the
\* matching products number (page-1)*size + 1 .. page*size in id order, page
\* 1 being the first page.
C11_PageSizePrecedence ==
    ( /\ last.op = "get_products"
      /\ last.status = "200"
      /\ {"page", "size"} \subseteq DOMAIN last.req )
    => LET p == last.req.page
           s == last.req.size
           all == Ascending(Matching(last.req))
       IN /\ last.skip = (p - 1) * s
          /\ last.limit = s
          /\ ("name" \notin DOMAIN last.req /\ "sort" \notin DOMAIN last.req)
                => last.items = SubSeq(all, (p - 1) * s + 1, Min(Len(all), p * s))

C11_Witness ==
    /\ last.op = "get_products"
    /\ last.status = "200"
    /\ {"page", "size"} \subseteq DOMAIN last.req
    /\ last.req.skip = 1
    /\ last.req.limit = 2
    /\ last.req.page = 2
    /\ last.req.size = 1
    /\ last.total = 3
    /\ last.items = <<2>>

----------------------------------------------------------------------------
(* Properties of the life cycle of a product *)

ValidProduct(p) ==
    /\ p.price > 0
    /\ p.stock_quantity >= 0
    /\ p.discount >= 0
    /\ p.discount <= 100

ValidPatch(p) ==
    /\ "price" \in DOMAIN p => p.price > 0
    /\ "stock_quantity" \in DOMAIN p => p.stock_quantity >= 0
    /\ "discount" \in DOMAIN p => (p.discount >= 0 /\ p.discount <= 100)

\* The ids that were given to a product and whose product was deleted
Deleted == (1..(product_seq - 1)) \ DOMAIN products

\* C12: round trip.  A valid create succeeds and returns a new id, a valid
\* update of an existing product succeeds and keeps it, a delete of an
\* existing product succeeds and removes it, a fetch of an id that has no
\* product answers 404 NotFound, and no step of any operation makes a deleted
\* id fetchable again, unless it is a create that returns that id.
C12_RoundTrip ==
    [][/\ \A id \in Deleted :
            id \in DOMAIN products'
                => /\ last'.op \in {"create_product", "service_create_product",
                                    "batch_create_products"}
                   /\ id \in Range(last'.ret)
       /\ last'.op = "create_product" =>
            \A body \in CatalogCreateInputs :
                (ValidProduct(body) /\ api_create_product(body))
                => /\ last'.status = "201"
                   /\ last'.ret = <<product_seq>>
                   /\ product_seq \notin DOMAIN products
                   /\ product_seq \in DOMAIN products'
       /\ last'.op = "update_product" =>
            \A product_id \in DOMAIN products :
            \A product_in \in CatalogUpdateInputs :
                (ValidPatch(product_in)
                 /\ api_update_product(product_id, product_in))
                => /\ last'.status = "200"
                   /\ product_id \in DOMAIN products'
                   /\ \A k \in DOMAIN product_in :
                         products'[product_id][k] = product_in[k]
       /\ last'.op = "delete_product" =>
            \A product_id \in DOMAIN products :
                api_delete_product(product_id)
                => /\ last'.status = "200"
                   /\ product_id \notin DOMAIN products'
       /\ last'.op = "get_product" =>
            \A product_id \in ProductIdInputs :
                api_get_product(product_id)
                => IF product_id \in DOMAIN products
                   THEN last'.status = "200" /\ last'.ret = <<product_id>>
                   ELSE last'.status = "404" /\ last'.named = <<product_id>>
      ]_vars

\* Product 1 was created, updated (its history row took a serial value),
\* deleted, and then fetched.
C12_Witness ==
    /\ last.op = "get_product"
    /\ last.status = "404"
    /\ last.named = <<1>>
    /\ product_seq = 2
    /\ products = Empty
    /\ price_history_seq > 1
    /\ price_history = <<>>

----------------------------------------------------------------------------
(* Properties of the history tables *)

\* C13: every PriceHistory and StockHistory row references a product that
\* exists, in every state that overlapping updates and deletions (single and
\* batch) can reach: a deletion leaves no history row of its product, and an
\* update that races with the deletion of its product leaves none either.
C13_HistoryReferencesProduct ==
    /\ \A i \in DOMAIN price_history :
          price_history[i].product_id \in DOMAIN products
    /\ \A i \in DOMAIN stock_history :
          stock_history[i].product_id \in DOMAIN products

\* An update in progress has written its price history row and has yet to
\* write the product, and the product was deleted meanwhile, with that row.
C13_Witness ==
    \E r \in DOMAIN requests :
        /\ requests[r].op = "update_product"
        /\ requests[r].todo = <<"update">>
        /\ "price" \in DOMAIN requests[r].update_data
        /\ requests[r].update_data.price # requests[r].product.price
        /\ requests[r].product_id \notin DOMAIN products
        /\ price_history_seq > 1
        /\ price_history = <<>>

C18_HistoryBeforeAcknowledgement ==
    [][ /\ \A r \in DOMAIN requests \ DOMAIN requests' :
              ( /\ requests[r].op = "update_product"
                /\ last'.op = "update_product"
                /\ last'.status = "200" )
              => LET q == requests[r] IN
                 /\ ("price" \in DOMAIN q.update_data
                        /\ q.update_data.price # q.product.price)
                    => \E row \in Range(price_get_by_product_id(
                                            DB', q.product_id, 0, 100)) :
                          /\ row.old_price = q.product.price
                          /\ row.new_price = q.update_data.price
                 /\ ("stock_quantity" \in DOMAIN q.update_data
                        /\ q.update_data.stock_quantity
                               # q.product.stock_quantity)
                    => \E row \in Range(stock_get_by_product_id(
                                            DB', q.product_id, 0, 100)) :
                          /\ row.old_quantity = q.product.stock_quantity
                          /\ row.new_quantity = q.update_data.stock_quantity
        /\ \A id \in DOMAIN products \cap DOMAIN products' :
              /\ products'[id].price # products[id].price
                 => \E row \in Range(price_get_by_product_id(DB, id, 0, 100)) :
                       row.new_price = products'[id].price
              /\ products'[id].stock_quantity # products[id].stock_quantity
                 => \E row \in Range(stock_get_by_product_id(DB, id, 0, 100)) :
                       row.new_quantity = products'[id].stock_quantity ]_vars

\* An update of price and stock was acknowledged while another request was
\* in progress; both history rows of the product are there.
C18_Witness ==
    /\ last.op = "update_product"
    /\ last.status = "200"
    /\ {"price", "stock_quantity"} \subseteq DOMAIN last.update_data
    /\ last.update_data.price # last.product.price
    /\ last.update_data.stock_quantity # last.product.stock_quantity
    /\ requests # Empty
    /\ \E row \in Range(price_get_by_product_id(DB, last.product_id, 0, 100)) :
          row.new_price = last.update_data.price
    /\ \E row \in Range(stock_get_by_product_id(DB, last.product_id, 0, 100)) :
          row.new_quantity = last.update_data.stock_quantity

----------------------------------------------------------------------------
(* Properties of search and sorting *)

\* term occurs in text as a substring, letter case apart
Contains(text, term) ==
    \E i \in 0..(Len(text) - Len(term)) :
        \A j \in 1..Len(term) : lower(text[i + j]) = lower(term[j])

\* C19: a product search returns only products whose name or description
\* contains the term (case-insensitive) and that satisfy every supplied
\* filter (category, min_price..max_price, min_stock..max_stock); when the
\* request asks for the first page of all, it returns exactly those products.
C19_SearchAppliesFilters ==
    ( /\ last.op = "get_products"
      /\ last.status = "200"
      /\ "name" \in DOMAIN last.req )
    => LET hits == {id \in Matching(last.req) :
                      \/ Contains(products[id].name, last.req.name)
                      \/ Contains(products[id].description, last.req.name)}
       IN /\ Range(last.items) \subseteq hits
          /\ "page" \notin DOMAIN last.req => Range(last.items) = hits

\* C28: the total of a product list response is the number of stored
\* products that satisfy every criterion of the request: the filters and,
\* when the request carries a name, the search for it.
C28_TotalCountsTheSelection ==
    (last.op = "get_products" /\ last.status = "200")
    => last.total =
          Cardinality({id \in Matching(last.req) :
                          "name" \in DOMAIN last.req
                             => \/ Contains(products[id].name, last.req.name)
                                \/ Contains(products[id].description,
                                            last.req.name)})

\* C29: a product list response holds at most size items, and its page,
\* size and pages are those of the query that ran: size is the limit of the
\* query, page is the page of that size the offset of the query lies on,
\* and pages is the number of pages of that size in total.
C29_ResponseDescribesTheQuery ==
    (last.op = "get_products" /\ last.status = "200")
    => /\ Len(last.items) <= last.size
       /\ last.size = last.limit
       /\ last.page = last.skip \div last.size + 1
       /\ last.pages = Ceil(last.total, last.size)

\* items is in the order of the column key of rows, ascending or descending
InOrder(rows, items, key, descending) ==
    \A i, j \in DOMAIN items :
        i < j => IF descending
                 THEN column(rows, items[i], key) >= column(rows, items[j], key)
                 ELSE column(rows, items[i], key) <= column(rows, items[j], key)

\* C20: the product list and the supplier list come ordered by the sort
\* field in the direction asked for when the field is a column, and by
\* ascending id when the field is missing or unknown; neither is an error.
C20_ListsAreSorted ==
    /\ ( /\ last.op = "get_products"
         /\ "name" \notin DOMAIN last.req
         /\ "page" \in DOMAIN last.req => last.req.page >= 1 )
       => /\ last.status = "200"
          /\ IF "sort" \in DOMAIN last.req /\ last.req.sort \in ProductColumns
             THEN InOrder(products, last.items, last.req.sort,
                          last.req.order = "desc")
             ELSE InOrder(products, last.items, "id", FALSE)
    /\ ( /\ last.op = "get_suppliers"
         /\ "name" \notin DOMAIN last.req
         /\ {"min_rating", "max_rating"} \cap DOMAIN last.req = {} )
       => /\ last.status = "200"
          /\ IF "sort_by" \in DOMAIN last.req
                /\ last.req.sort_by \in SupplierColumns
             THEN InOrder(suppliers, last.items, last.req.sort_by,
                          last.req.sort_order = "desc")
             ELSE InOrder(suppliers, last.items, "id", FALSE)

----------------------------------------------------------------------------
(* Properties of the association of products and suppliers *)

\* C16: a creation of a product that names suppliers, through POST /products
\* or through ProductService.create_product, persists the product, and a
\* read of the suppliers of the new product returns exactly the named ids
\* that are ids of existing suppliers.
C16_CreateAssociatesSuppliers ==
    [][ (last'.op \in {"create_product", "service_create_product"}) =>
        \A body \in CatalogCreateInputs :
           ( /\ "supplier_ids" \in DOMAIN body
             /\ \/ api_create_product(body)
                \/ service_create_product(body) )
           => /\ last'.status = "201"
              /\ last'.ret = <<product_seq>>
              /\ product_seq \in DOMAIN products'
              /\ get_product_suppliers(DB', product_seq)
                    = Range(body.supplier_ids) \cap DOMAIN suppliers ]_vars

\* C17: the association is idempotent.  After add_supplier_to_product for
\* an existing product and an existing supplier, the same call once more is
\* not an error and leaves the association set as the first call left it;
\* remove_supplier_from_product of an association that is not there answers
\* 200 and leaves the association set unchanged.
C17_AssociationIdempotent ==
    [][ /\ (last'.op = "add_supplier_to_product") =>
           \A product_id \in DOMAIN products, supplier_id \in DOMAIN suppliers :
              api_add_supplier_to_product(product_id, supplier_id)
              => LET again == add_supplier_to_product(DB', product_id,
                                                      supplier_id)
                 IN /\ again.exc = "none"
                    /\ again.db.product_suppliers = product_suppliers'
        /\ (last'.op = "remove_supplier_from_product") =>
           \A product_id \in DOMAIN products, supplier_id \in SupplierIdInputs :
              ( /\ <<product_id, supplier_id>> \notin product_suppliers
                /\ api_remove_supplier_from_product(product_id, supplier_id) )
              => /\ last'.status = "200"
                 /\ product_suppliers' = product_suppliers ]_vars

----------------------------------------------------------------------------
(* Properties of the suppliers *)

\* C23: the lenient batch operations of the suppliers.  A batch update with
\* a valid patch and a batch delete are answered 200 whether or not every
\* id is stored; they act on exactly the suppliers whose id is in the list
\* and stored, return exactly those, and leave every other supplier as it
\* was.
C23_LenientBatch ==
    [][ /\ (last'.op = "batch_update_suppliers") =>
           \A update_data \in SupplierBatchUpdateInputs :
              ( /\ last'.ratings = ratings_of(update_data)
                /\ "credit_rating" \in DOMAIN update_data
                      => ~rating_out_of_range(update_data.credit_rating) )
              => \A supplier_ids \in SeqsUpTo(SupplierIdInputs, MaxBatch) :
              ( /\ last'.via = "api" => supplier_ids # <<>>
                /\ api_batch_update_suppliers(last'.via, supplier_ids,
                                              update_data) )
              => /\ last'.status = "200"
                 /\ last'.ret = Range(supplier_ids) \cap DOMAIN suppliers
                 /\ DOMAIN suppliers' = DOMAIN suppliers
                 /\ \A i \in DOMAIN suppliers :
                       /\ DOMAIN suppliers'[i] = DOMAIN suppliers[i]
                       /\ \A field \in DOMAIN suppliers[i] :
                             suppliers'[i][field] =
                                 IF i \in Range(supplier_ids)
                                    /\ field \in DOMAIN update_data
                                 THEN update_data[field]
                                 ELSE suppliers[i][field]
        /\ (last'.op = "batch_delete_suppliers") =>
           \A supplier_ids \in NonEmptySeqsUpTo(SupplierIdInputs, MaxBatch) :
              api_batch_delete_suppliers(supplier_ids)
              => /\ last'.status = "200"
                 /\ last'.ret = Range(supplier_ids) \cap DOMAIN suppliers
                 /\ DOMAIN suppliers' = DOMAIN suppliers \ Range(supplier_ids)
                 /\ \A i \in DOMAIN suppliers' : suppliers'[i] = suppliers[i] ]_vars

\* Two suppliers were stored; a batch delete that named a missing id along with
\* supplier 2, or supplier 2 alone, deleted supplier 2 and returned it, and
\* supplier 1 stayed.
C23_Witness ==
    /\ last.op = "batch_delete_suppliers"
    /\ last.status = "200"
    /\ last.ret = {2}
    /\ supplier_seq = 3
    /\ DOMAIN suppliers = {1}

C22_HistoryReadOfMissingProduct ==
    [][ (last'.op \in HistoryReads) =>
        \A product_id \in ProductIdInputs, dates \in DateInputs :
           history_service_read(last'.op, product_id, dates)
           => /\ UNCHANGED <<product_vars, supplier_vars>>
              /\ IF product_id \in DOMAIN products
                 THEN last'.status = "returned"
                 ELSE /\ last'.status = "NotFoundException"
                      /\ last'.named = <<product_id>>
                      /\ last'.ret = <<>> ]_vars

\* The combined history of product 1 was asked for after product 1 was
\* deleted with its history; the other product has a history row.
C22_Witness ==
    /\ last.op = "get_combined_history"
    /\ last.status = "NotFoundException"
    /\ last.named = <<1>>
    /\ 1 \notin DOMAIN products
    /\ price_history_seq = 3
    /\ Len(price_history) = 1

----------------------------------------------------------------------------
(* Properties of the change reason *)

\* C25: change_reason is stored only with a stock change.  An update of a
\* stored product that carries change_reason is answered 200; when it
\* changes stock_quantity, the one StockHistory row it appends holds the
\* reason, the old and the new quantity; when it does not, StockHistory is
\* as it was; in both cases the product has the columns it had, and no
\* PriceHistory row holds a reason.
C25_ChangeReasonOnlyWithStockChange ==
    [][ (last'.op = "update_product") =>
        \A product_id \in DOMAIN products :
          \A product_in \in ProductUpdateInputs :
            ( /\ "change_reason" \in DOMAIN product_in
              /\ last'.fields = DOMAIN product_in
              /\ ProductUpdate(product_in)
              /\ api_update_product(product_id, product_in) )
            => /\ last'.status = "200"
               /\ DOMAIN products'[product_id] = DOMAIN products[product_id]
               /\ \A i \in DOMAIN price_history' :
                     "change_reason" \notin DOMAIN price_history'[i]
               /\ stock_history' =
                     IF "stock_quantity" \in DOMAIN product_in
                        /\ product_in.stock_quantity
                              # products[product_id].stock_quantity
                     THEN Append(stock_history,
                                 [id |-> stock_history_seq,
                                  product_id |-> product_id,
                                  old_quantity |-> products[product_id].stock_quantity,
                                  new_quantity |-> product_in.stock_quantity,
                                  change_reason |-> product_in.change_reason])
                     ELSE stock_history ]_vars

\* An update that carried a reason and changed the stock was followed by one
\* that carried a reason and changed only the price: one stock row, with the
\* reason of the first.
C25_Witness ==
    /\ last.op = "update_product"
    /\ last.status = "200"
    /\ last.fields = {"price", "change_reason"}
    /\ last.rows = <<1, 0>>
    /\ Len(stock_history) = 1
    /\ stock_history[1].change_reason = "restock"

----------------------------------------------------------------------------
(* Properties of the batch creation of products *)

\* The rows a step stored.
Created == DOMAIN products' \ DOMAIN products

\* The step stored every record of the list, in list order, and nothing else.
StoresAll(products_in) ==
    /\ Created = {product_seq + i - 1 : i \in DOMAIN products_in}
    /\ \A i \in DOMAIN products_in : products'[product_seq + i - 1] = products_in[i]

\* C24: batch create is all-or-nothing.  A batch create either stores every
\* record of its list and answers 201, or stores none of them and answers
\* an error; in both cases the products stored before are as they were.
C24_BatchCreateAllOrNothing ==
    [][ /\ (last'.op = "batch_create_products") =>
           \A products_in \in NonEmptySeqsUpTo(ProductBatchCreateInputs, MaxBatch) :
              api_batch_create_products(products_in)
              => /\ \A i \in DOMAIN products : products'[i] = products[i]
                 /\ \/ last'.status = "201" /\ StoresAll(products_in)
                    \/ last'.status # "201" /\ Created = {}
        /\ (last'.op = "service_batch_create_products") =>
           \A products_in \in NonEmptySeqsUpTo(UnvalidatedProducts, MaxBatch) :
              service_batch_create_products(products_in)
              => /\ \A i \in DOMAIN products : products'[i] = products[i]
                 /\ \/ last'.status = "201" /\ StoresAll(products_in)
                    \/ last'.status # "201" /\ Created = {} ]_vars

\* A batch of a complete record followed by one the store rejects was
\* answered 500: the sequence handed out two ids and no product is stored.
C24_Witness ==
    /\ last.op = "service_batch_create_products"
    /\ last.status = "500"
    /\ product_seq = 3
    /\ products = Empty

----------------------------------------------------------------------------
(* Properties of the batch update of products *)

\* The value of a field of the product of item i when item i is applied: the
\* value the last earlier item for the same product gave it, or the stored
\* one.
Before(db, updates, i, field) ==
    LET earlier == {j \in 1..(i - 1) : /\ updates[j].id = updates[i].id
                                       /\ field \in DOMAIN updates[j]}
    IN IF earlier = {} THEN db.products[updates[i].id][field]
       ELSE updates[CHOOSE j \in earlier : \A k \in earlier : k <= j][field]

\* The items that change the field.
Changing(db, updates, field) ==
    {i \in DOMAIN updates : /\ field \in DOMAIN updates[i]
                            /\ updates[i][field] # Before(db, updates, i, field)}

\* history holds, after the rows of before, one row for each item that
\* changes the field, in list order, with the old and the new value.
AppendedInOrder(db, before, history, updates, field, old, new) ==
    LET S == Changing(db, updates, field) IN
    /\ Len(history) = Len(before) + Cardinality(S)
    /\ SubSeq(history, 1, Len(before)) = before
    /\ \A i \in S :
          LET row == history[Len(before) + Cardinality({j \in S : j <= i})]
          IN /\ row.product_id = updates[i].id
             /\ row[old] = Before(db, updates, i, field)
             /\ row[new] = updates[i][field]

\* What batch_update_products is to do with a list whose ids are all stored.
TrackedPerItem(db, r, updates) ==
    /\ r.exc = "none"
    /\ r.ret = [i \in DOMAIN updates |-> updates[i].id]
    /\ AppendedInOrder(db, db.price_history, r.db.price_history, updates,
                       "price", "old_price", "new_price")
    /\ AppendedInOrder(db, db.stock_history, r.db.stock_history, updates,
                       "stock_quantity", "old_quantity", "new_quantity")
    /\ DOMAIN r.db.products = DOMAIN db.products
    /\ \A id \in DOMAIN db.products, field \in {"price", "stock_quantity"} :
          LET items == {i \in DOMAIN updates : /\ updates[i].id = id
                                               /\ field \in DOMAIN updates[i]}
          IN r.db.products[id][field] =
                 IF items = {} THEN db.products[id][field]
                 ELSE updates[CHOOSE i \in items : \A j \in items : j <= i][field]

Newest(history, id) ==
    history[CHOOSE i \in DOMAIN history :
               /\ history[i].product_id = id
               /\ \A j \in DOMAIN history : history[j].product_id = id => j <= i]

\* C30: history stays faithful to the product.  When no update is in
\* progress, the newest PriceHistory row of a product holds the product's
\* price as its new_price, and the newest StockHistory row holds its
\* stock_quantity as its new_quantity.
C30_HistoryFaithfulToProduct ==
    requests = Empty
    => \A id \in DOMAIN products :
          /\ (\E i \in DOMAIN price_history : price_history[i].product_id = id)
                => Newest(price_history, id).new_price = products[id].price
          /\ (\E i \in DOMAIN stock_history : stock_history[i].product_id = id)
                => Newest(stock_history, id).new_quantity
                      = products[id].stock_quantity

----------------------------------------------------------------------------
(* Properties of the sessions *)

----------------------------------------------------------------------------
(* Properties of requests that overlap *)

\* C21: MaxRequests clients update the stock_quantity of one product at the
\* same time, to pairwise distinct amounts that all differ from the initial
\* stock.  Under every interleaving each request is answered 200, and when
\* all are answered the stock of the product is one of the amounts and the
\* product has at least MaxRequests StockHistory rows.
C21_ConcurrentStockUpdates ==
    /\ \A amount \in DOMAIN responses : responses[amount] = "200"
    /\ DOMAIN responses = Amounts
          => /\ products[last.product_id].stock_quantity \in Amounts
             /\ Len(stock_get_by_product_id(DB, last.product_id, 0, 100))
                    >= MaxRequests

\* Both clients were answered; both had loaded the product before either
\* wrote it, and the stock that stayed is not the one of the newest history
\* row.
C21_Witness ==
    /\ DOMAIN responses = Amounts
    /\ \A i \in DOMAIN stock_history : stock_history[i].old_quantity = 0
    /\ Len(stock_history) = MaxRequests
    /\ stock_history[Len(stock_history)].new_quantity
          # products[last.product_id].stock_quantity

====
